---------------------------- MODULE Spec2Model ----------------------------
(***************************************************************************)
(* A model of the type-class instances of fp-ts-practices (Eq, Ord,        *)
(* Semigroup, Monoid and their derivation combinators) and of the law      *)
(* checks the repository runs on them.                                     *)
(*                                                                         *)
(* Every instance of the source is a record of closures.  Here an instance *)
(* is named by a string (its name in the source) and its operations are    *)
(* operators; the operators concat/empty dispatch on the name, which is    *)
(* how a combinator such as getStructSemigroup reaches the instances of    *)
(* the fields it was built from.                                           *)
(*                                                                         *)
(* A JavaScript string is the sequence of its UTF-16 code units, an array  *)
(* is a sequence, an object is a record, Option is a record tagged "None"  *)
(* or "Some".  Numbers are integers of a bounded range, on which the       *)
(* double arithmetic of JavaScript is exact.                               *)
(***************************************************************************)
EXTENDS Integers, Sequences, FiniteSets, TLC

VARIABLES
    call,     \* the last call: <<operation, instance, arguments, result>>
    aliased   \* TRUE when objects of the call that have the same contents
              \* are one reference

vars == <<call, aliased>>

(* The operation that was applied last, "idle" before a call; the name of  *)
(* the instance it belongs to; its arguments; what it returned.            *)
op == call[1]
inst == call[2]
args == call[3]
res == call[4]

---------------------------------------------------------------------------
(* Bounds of the model. *)

MaxInt == 2
MaxLen == 2
MaxArr == 2

(* ' ' as a UTF-16 code unit. *)
Space == 32

(* ' ', 'a', 'b' *)
Alphabet == {Space, 97, 98}

StringsUpTo(n) == UNION {[1..k -> Alphabet] : k \in 0..n}

(* 'a', 'b', 'c': the elements folded at 07-applicative.ts:282 *)
SampleStrings == {<<97>>, <<98>>, <<99>>}

Ints == (-MaxInt)..MaxInt
Strings == StringsUpTo(MaxLen) \cup SampleStrings
Booleans == BOOLEAN

(* Arrays of strings, the carrier of getArraySemigroup<string>(). *)
Things == {<<97>>, <<98>>}
Arrays == UNION {[1..k -> Things] : k \in 0..MaxArr}

(* p1, p2, p3 (= p4) of 03-semigroup.ts and p1 .. p4 of 07-applicative.ts *)
SamplePoints ==
    {[x |-> 10, y |-> 15], [x |-> 3, y |-> 5], [x |-> 8, y |-> 2],
     [x |-> 1, y |-> 3], [x |-> 5, y |-> 8], [x |-> 8, y |-> 13]}

Points == [x : Ints, y : Ints] \cup SamplePoints

(* The end points of the sample vectors v1, v2 of 03-semigroup.ts, and the origin. *)
VectorPoints ==
    {[x |-> 0, y |-> 0], [x |-> 10, y |-> 15], [x |-> 3, y |-> 5], [x |-> 8, y |-> 2]}

Vectors == [from : VectorPoints, to : VectorPoints]

---------------------------------------------------------------------------
(* Option, fp-ts/lib/Option. *)

none == [tag |-> "None"]
some(a) == [tag |-> "Some", value |-> a]
isNone(fa) == fa.tag = "None"
isSome(fa) == fa.tag = "Some"
Option(A) == {none} \cup {some(a) : a \in A}

(* The fields of Settings: font names, font sizes, minimap columns. *)
FontFamilies == {<<97>>, <<98>>}
FontSizes == {12, 14}
MaxColumns == {80, 120}

SettingsSet ==
    [fontFamily : Option(FontFamilies), fontSize : Option(FontSizes),
     maxColumn : Option(MaxColumns)]

workspaceSettings ==
    [fontFamily |-> some(<<97>>), fontSize |-> none, maxColumn |-> some(80)]

userSettings ==
    [fontFamily |-> some(<<98>>), fontSize |-> some(12), maxColumn |-> none]

---------------------------------------------------------------------------
(* JavaScript's x === y.  On numbers, strings and booleans it compares the *)
(* values.  On objects it compares the references: the variable aliased    *)
(* says whether the objects of the call that have the same contents are    *)
(* one object (then === is TRUE on them) or separate copies.               *)

strictEqual(x, y) == x = y
sameReference(x, y) == aliased /\ x = y

(* JavaScript's o[k] is undefined when the object o has no property k.  Of   *)
(* two undefined operands, x + y is NaN and x === y is true.                *)
NaN == "NaN"
hasProperty(o, k) == k \in DOMAIN o

(* x < y on JavaScript strings: lexicographic on the code units. *)
RECURSIVE stringLess(_, _)
stringLess(x, y) ==
    IF y = <<>> THEN FALSE
    ELSE IF x = <<>> THEN TRUE
    ELSE IF Head(x) # Head(y) THEN Head(x) < Head(y)
    ELSE stringLess(Tail(x), Tail(y))

---------------------------------------------------------------------------
(* Ord, 02-ord.ts.  An Ord instance is named by a sequence of strings: the *)
(* instance's name, under as many "getDualOrd" as were applied to it.      *)

(* type User = { name, age } of 02-ord.ts; the name is never inspected. *)
Ages == Ints \cup {31, 34}
AgedUsers == [name : {"Dimebag", "Mercury"}, age : Ages]

(* x > y not tested: 1 for every pair that is not x < y. *)
ordNumberA_compareNoTie(x, y) == IF x < y THEN -1 ELSE 1

(* (x, y) => (x < y ? -1 : x > y ? 1 : 0) *)
ordNumberA_compare(x, y) == IF x < y THEN -1 ELSE IF x > y THEN 1 ELSE 0

(* x <= y written for x === y. *)
ordNumberA_equalsAtMost(x, y) == x <= y

ordNumberA_equals(x, y) == strictEqual(x, y)

(* fromCompare of fp-ts/lib/Ord: compare is (x, y) => x === y ? 0 : c(x, y), *)
(* where same is the value of x === y and c that of c(x, y).                 *)
fromCompare(same, c) == IF same THEN 0 ELSE c

ordNumber_compare(x, y) ==
    fromCompare(strictEqual(x, y), IF x < y THEN -1 ELSE IF x > y THEN 1 ELSE 0)

(* fromCompare((x, y) => ordNumber.compare(x.age, y.age)) *)
byAgeA_compare(x, y) ==
    fromCompare(sameReference(x, y), ordNumber_compare(x.age, y.age))

fnContramap(user) == user.age

(* contramap(f)(O) of fp-ts/lib/Ord is fromCompare((x, y) => O.compare(f(x), f(y))) *)
byAge_compare(x, y) ==
    fromCompare(sameReference(x, y), ordNumber_compare(fnContramap(x), fnContramap(y)))

(* ordNumber and ordString of fp-ts/lib/Ord, imported by 03-semigroup.ts *)
fpOrdNumber_compare(x, y) == IF x < y THEN -1 ELSE IF x > y THEN 1 ELSE 0
ordString_compare(x, y) == IF stringLess(x, y) THEN -1 ELSE IF stringLess(y, x) THEN 1 ELSE 0

(* contramap((s: string) => s.length)(ordNumber), the ordering of customer names *)
ordNameLength_compare(x, y) ==
    fromCompare(strictEqual(x, y), fpOrdNumber_compare(Len(x), Len(y)))

BaseOrds ==
    {"ordNumberA", "ordNumber", "byAgeA", "byAge", "fpOrdNumber", "ordString",
     "ordNameLength"}

(* The values an ordering compares. *)
OrdCarrier(O) ==
    CASE O[Len(O)] \in {"ordNumberA", "ordNumber", "fpOrdNumber"} -> Ints
      [] O[Len(O)] \in {"byAgeA", "byAge"} -> AgedUsers
      [] O[Len(O)] \in {"ordString", "ordNameLength"} -> Strings

OnObjects(O) == O[Len(O)] \in {"byAgeA", "byAge"}

RECURSIVE compare(_, _, _)

(* The arguments of O.compare not swapped. *)
getDualOrd_notSwapped(O, x, y) ==
    fromCompare(IF OnObjects(O) THEN sameReference(x, y) ELSE strictEqual(x, y),
                compare(O, x, y))

(* getDualOrd(O) of fp-ts/lib/Ord is fromCompare((x, y) => O.compare(y, x)) *)
getDualOrd_compare(O, x, y) ==
    fromCompare(IF OnObjects(O) THEN sameReference(x, y) ELSE strictEqual(x, y),
                compare(O, y, x))

compare(O, x, y) ==
    CASE O = <<"ordNumberA">> -> ordNumberA_compare(x, y)
      [] O = <<"ordNumber">> -> ordNumber_compare(x, y)
      [] O = <<"byAgeA">> -> byAgeA_compare(x, y)
      [] O = <<"byAge">> -> byAge_compare(x, y)
      [] O = <<"fpOrdNumber">> -> fpOrdNumber_compare(x, y)
      [] O = <<"ordString">> -> ordString_compare(x, y)
      [] O = <<"ordNameLength">> -> ordNameLength_compare(x, y)
      [] Head(O) = "getDualOrd" -> getDualOrd_compare(Tail(O), x, y)

getDualOrd(O) == <<"getDualOrd">> \o O

(* O.equals(x, y).  ordNumberA has its own equals; ordNumber and ordString  *)
(* of fp-ts/lib/Ord have x === y; an instance built by fromCompare (and so  *)
(* by contramap and getDualOrd) has (x, y) => compare(x, y) === 0, compare  *)
(* being the one that returns 0 on x === y.                                 *)
fromCompare_equals(O, x, y) == compare(O, x, y) = 0

ordEquals(O, x, y) ==
    CASE O = <<"ordNumberA">> -> ordNumberA_equals(x, y)
      [] O \in {<<"fpOrdNumber">>, <<"ordString">>} -> strictEqual(x, y)
      [] OTHER -> fromCompare_equals(O, x, y)

(* y taken when x is the lesser: the greater of the two. *)
min_wrongSign(O, x, y) == IF compare(O, x, y) = -1 THEN y ELSE x

(* x kept only when it is strictly the lesser: y on a tie. *)
min_tieSecond(O, x, y) == IF compare(O, x, y) = -1 THEN x ELSE y

(* function min<A>(O: Ord<A>), 02-ord.ts:53 *)
min(O, x, y) == IF compare(O, x, y) = 1 THEN y ELSE x

(* function max<A>(O: Ord<A>), 02-ord.ts:99 *)
max(O, x, y) == min(getDualOrd(O), x, y)

(* getMeetSemigroup(O) and getJoinSemigroup(O) of fp-ts/lib/Semigroup: *)
(* { concat: min(O) } and { concat: max(O) } with the library's min, max *)
getMeetSemigroup(O, x, y) == IF compare(O, x, y) = 1 THEN y ELSE x
getJoinSemigroup(O, x, y) == IF compare(O, x, y) = -1 THEN y ELSE x

---------------------------------------------------------------------------
(* Semigroup and Monoid.  An instance is named by a string; concat(S, x, y) *)
(* is S.concat(x, y) and empty(M) is M.empty.                               *)

RECURSIVE concat(_, _, _)
RECURSIVE empty(_)

(* The separator written only before a non-empty y. *)
specSemigroupS_skipEmpty(x, y) == IF y = <<>> THEN x ELSE x \o <<Space>> \o y

(* specs/semigroup.spec.ts (src/unnamed/part_000): const S *)
specSemigroupS_concat(x, y) == x \o <<Space>> \o y

(* the predicate associativity of the same file; === is on strings *)
associativity(x, y, z) ==
    strictEqual(specSemigroupS_concat(specSemigroupS_concat(x, y), z),
                specSemigroupS_concat(x, specSemigroupS_concat(y, z)))

(* specs/monoid.spec.ts: const S, const M = { ...S, empty: '' } *)
specMonoidS_concat(x, y) == x \o y
specMonoidM_concat(x, y) == specMonoidS_concat(x, y)
specMonoidM_empty == <<>>
rightIdentity(x) == strictEqual(specMonoidM_concat(x, specMonoidM_empty), x)
leftIdentity(x) == strictEqual(specMonoidM_concat(specMonoidM_empty, x), x)

(* 03-semigroup.ts *)
semigroupProduct_concat(x, y) == x * y
(* Subtraction for addition. *)
semigroupSum_minus(x, y) == x - y
semigroupSum_concat(x, y) == x + y
semigroupString_concat(x, y) == x \o y
getFirstSemigroup_concat(x, y) == x
getLastSemigroup_concat(x, y) == y
(* Array.prototype.concat *)
getArraySemigroup_concat(x, y) == x \o y

semigroupMin_concat(x, y) == getMeetSemigroup(<<"fpOrdNumber">>, x, y)
semigroupMax_concat(x, y) == getJoinSemigroup(<<"fpOrdNumber">>, x, y)
semigroupMinStr_concat(x, y) == getMeetSemigroup(<<"ordString">>, x, y)
semigroupMaxStr_concat(x, y) == getJoinSemigroup(<<"ordString">>, x, y)

semigroupPoint_concat(p1, p2) ==
    [x |-> semigroupSum_concat(p1.x, p2.x), y |-> semigroupSum_concat(p1.y, p2.y)]

(* S.concat(x[key], y[key]) when x and y have no property key: the sum of   *)
(* undefined and undefined.                                                 *)
concatUndefined(S) == CASE S \in {"semigroupSum", "monoidSum"} -> NaN

(* A struct concat that reads both operands of a field from x. *)
getStructSemigroup_leftOnly(semigroups, x, y) ==
    [key \in DOMAIN semigroups |-> concat(semigroups[key], x[key], x[key])]

(* getStructSemigroup(semigroups) of fp-ts/lib/Semigroup: for every key of *)
(* semigroups, r[key] = semigroups[key].concat(x[key], y[key])             *)
getStructSemigroup(semigroups, x, y) ==
    [key \in DOMAIN semigroups |->
        IF hasProperty(x, key) /\ hasProperty(y, key)
        THEN concat(semigroups[key], x[key], y[key])
        ELSE concatUndefined(semigroups[key])]

semigroupPointB_concat(x, y) ==
    getStructSemigroup([x |-> "semigroupSum", y |-> "semigroupSum"], x, y)

semigroupVector_concat(x, y) ==
    getStructSemigroup([from |-> "semigroupPoint", to |-> "semigroupPoint"], x, y)

(* semigroupAll and semigroupAny of fp-ts/lib/Semigroup *)
semigroupAll_concat(x, y) == x /\ y
semigroupAny_concat(x, y) == x \/ y

(* getMonoid<string>() of fp-ts/lib/Array *)
getMonoidArray_concat(x, y) == x \o y
getMonoidArray_empty == <<>>

(* the semigroup of the field name of semigroupCustomer *)
(* The longer name, the second one when the lengths tie. *)
customerName_concatSecondOnTie(x, y) == IF compare(<<"ordNameLength">>, x, y) = 1 THEN x ELSE y

customerName_concat(x, y) == getJoinSemigroup(<<"ordNameLength">>, x, y)

semigroupCustomer_concat(x, y) ==
    getStructSemigroup(
        [name |-> "customerName", favouriteThings |-> "getMonoidArray",
         registeredAt |-> "semigroupMin", lastUpdatedAt |-> "semigroupMax",
         hasMadePurchase |-> "semigroupAny"], x, y)

(* 07-applicative.ts *)
monoidSum_concat(x, y) == x + y
monoidSum_empty == 0
monoidProduct_concat(x, y) == x * y
(* The empty of monoidSum given to the product. *)
monoidProduct_emptyZero == monoidSum_empty
monoidProduct_empty == 1
monoidString_concat(x, y) == x \o y
monoidString_empty == <<>>
monoidAll_concat(x, y) == x /\ y
monoidAll_empty == TRUE
monoidAny_concat(x, y) == x \/ y
monoidAny_empty == FALSE
(* The separator left out. *)
semigroupSpace_noSeparator(x, y) == x \o y
semigroupSpace_concat(x, y) == x \o <<Space>> \o y

(* getStructMonoid(monoids) of fp-ts/lib/Monoid: the concat of              *)
(* getStructSemigroup(monoids), and empty[key] = monoids[key].empty         *)
getStructMonoid_concat(monoids, x, y) == getStructSemigroup(monoids, x, y)
getStructMonoid_empty(monoids) == [key \in DOMAIN monoids |-> empty(monoids[key])]

monoidPoint_concat(x, y) ==
    getStructMonoid_concat([x |-> "monoidSum", y |-> "monoidSum"], x, y)
monoidPoint_empty == getStructMonoid_empty([x |-> "monoidSum", y |-> "monoidSum"])

monoidVector_concat(x, y) ==
    getStructMonoid_concat([from |-> "monoidPoint", to |-> "monoidPoint"], x, y)
monoidVector_empty ==
    getStructMonoid_empty([from |-> "monoidPoint", to |-> "monoidPoint"])

(* getApplySemigroup(S) and getApplyMonoid(M) of fp-ts/lib/Option *)
(* A lifting that keeps the value there is when the other is none. *)
getApplySemigroup_keepsSome(S, x, y) ==
    IF isSome(x) /\ isSome(y) THEN some(concat(S, x.value, y.value))
    ELSE IF isSome(x) THEN x ELSE y

getApplySemigroup(S, x, y) ==
    IF isSome(x) /\ isSome(y) THEN some(concat(S, x.value, y.value)) ELSE none
getApplyMonoid_empty(M) == some(empty(M))

(* const M = getApplyMonoid(monoidSum) *)
optionM_concat(x, y) == getApplySemigroup("monoidSum", x, y)
optionM_empty == getApplyMonoid_empty("monoidSum")

(* getFirstMonoid() and getLastMonoid() of fp-ts/lib/Option: Mf, Ml *)
getFirstMonoid_concat(x, y) == IF isNone(x) THEN y ELSE x
getFirstMonoid_empty == none
(* The left-most value kept: getFirstMonoid's concat. *)
getLastMonoid_leftMost(x, y) == IF isNone(x) THEN y ELSE x

getLastMonoid_concat(x, y) == IF isNone(y) THEN x ELSE y
getLastMonoid_empty == none

SettingsMonoids ==
    [fontFamily |-> "getLastMonoid", fontSize |-> "getLastMonoid",
     maxColumn |-> "getLastMonoid"]

monoidSettings_concat(x, y) == getStructMonoid_concat(SettingsMonoids, x, y)
monoidSettings_empty == getStructMonoid_empty(SettingsMonoids)

concat(S, x, y) ==
    CASE S = "specSemigroupS" -> specSemigroupS_concat(x, y)
      [] S = "specMonoidM" -> specMonoidM_concat(x, y)
      [] S = "semigroupProduct" -> semigroupProduct_concat(x, y)
      [] S = "semigroupSum" -> semigroupSum_concat(x, y)
      [] S = "semigroupString" -> semigroupString_concat(x, y)
      [] S = "getFirstSemigroup" -> getFirstSemigroup_concat(x, y)
      [] S = "getLastSemigroup" -> getLastSemigroup_concat(x, y)
      [] S = "getArraySemigroup" -> getArraySemigroup_concat(x, y)
      [] S = "semigroupMin" -> semigroupMin_concat(x, y)
      [] S = "semigroupMax" -> semigroupMax_concat(x, y)
      [] S = "semigroupMinStr" -> semigroupMinStr_concat(x, y)
      [] S = "semigroupMaxStr" -> semigroupMaxStr_concat(x, y)
      [] S = "semigroupPoint" -> semigroupPoint_concat(x, y)
      [] S = "semigroupPointB" -> semigroupPointB_concat(x, y)
      [] S = "semigroupVector" -> semigroupVector_concat(x, y)
      [] S = "semigroupAll" -> semigroupAll_concat(x, y)
      [] S = "semigroupAny" -> semigroupAny_concat(x, y)
      [] S = "getMonoidArray" -> getMonoidArray_concat(x, y)
      [] S = "customerName" -> customerName_concat(x, y)
      [] S = "semigroupCustomer" -> semigroupCustomer_concat(x, y)
      [] S = "monoidSum" -> monoidSum_concat(x, y)
      [] S = "monoidProduct" -> monoidProduct_concat(x, y)
      [] S = "monoidString" -> monoidString_concat(x, y)
      [] S = "monoidAll" -> monoidAll_concat(x, y)
      [] S = "monoidAny" -> monoidAny_concat(x, y)
      [] S = "semigroupSpace" -> semigroupSpace_concat(x, y)
      [] S = "monoidPoint" -> monoidPoint_concat(x, y)
      [] S = "monoidVector" -> monoidVector_concat(x, y)
      [] S = "optionM" -> optionM_concat(x, y)
      [] S = "getFirstMonoid" -> getFirstMonoid_concat(x, y)
      [] S = "getLastMonoid" -> getLastMonoid_concat(x, y)
      [] S = "monoidSettings" -> monoidSettings_concat(x, y)

empty(M) ==
    CASE M = "specMonoidM" -> specMonoidM_empty
      [] M = "getMonoidArray" -> getMonoidArray_empty
      [] M = "monoidSum" -> monoidSum_empty
      [] M = "monoidProduct" -> monoidProduct_empty
      [] M = "monoidString" -> monoidString_empty
      [] M = "monoidAll" -> monoidAll_empty
      [] M = "monoidAny" -> monoidAny_empty
      [] M = "monoidPoint" -> monoidPoint_empty
      [] M = "monoidVector" -> monoidVector_empty
      [] M = "optionM" -> optionM_empty
      [] M = "getFirstMonoid" -> getFirstMonoid_empty
      [] M = "getLastMonoid" -> getLastMonoid_empty
      [] M = "monoidSettings" -> monoidSettings_empty

(* The customers: names 'a', 'b', 'ab' (two of one length, one longer). *)
CustomerNames == {<<97>>, <<98>>, <<97, 98>>}
CustomerThings == {<< <<97>> >>, << <<98>> >>}
Timestamps == 0..1

Customers ==
    [name : CustomerNames, favouriteThings : CustomerThings,
     registeredAt : Timestamps, lastUpdatedAt : Timestamps,
     hasMadePurchase : Booleans]

(* The monoid instances of the source, and its semigroup instances. *)
Monoids ==
    {"specMonoidM", "monoidSum", "monoidProduct", "monoidString", "monoidAll",
     "monoidAny", "monoidPoint", "monoidVector", "optionM", "getFirstMonoid",
     "getLastMonoid", "monoidSettings"}

Semigroups ==
    {"specSemigroupS", "semigroupProduct", "semigroupSum", "semigroupString",
     "getFirstSemigroup", "getLastSemigroup", "getArraySemigroup",
     "semigroupMin", "semigroupMax", "semigroupMinStr", "semigroupMaxStr",
     "semigroupPoint", "semigroupPointB", "semigroupVector", "semigroupCustomer",
     "semigroupSpace"}

(* The values an instance combines. *)
Carrier(S) ==
    CASE S \in {"semigroupProduct", "semigroupSum", "getFirstSemigroup",
                "semigroupMin", "semigroupMax", "monoidSum", "monoidProduct"} -> Ints
      [] S \in {"specSemigroupS", "specMonoidM", "semigroupString",
                "getLastSemigroup", "semigroupMinStr", "semigroupMaxStr",
                "monoidString", "semigroupSpace"} -> Strings
      [] S = "getArraySemigroup" -> Arrays
      [] S \in {"monoidAll", "monoidAny"} -> Booleans
      [] S \in {"semigroupPoint", "semigroupPointB", "monoidPoint"} -> Points
      [] S \in {"semigroupVector", "monoidVector"} -> Vectors
      [] S = "semigroupCustomer" -> Customers
      [] S \in {"optionM", "getFirstMonoid", "getLastMonoid"} -> Option(Ints)
      [] S = "monoidSettings" -> SettingsSet

---------------------------------------------------------------------------
(* The calls.  A call is made from the idle state, on arguments of the     *)
(* instance's carrier; Return goes back to the idle state.                 *)

Init ==
    /\ call = <<"idle", "none", <<>>, <<>>>>
    /\ aliased = FALSE

Return ==
    /\ op # "idle"
    /\ aliased' = FALSE
    /\ call' = <<"idle", "none", <<>>, <<>>>>

(* S.concat(x, y) *)
Concat ==
    /\ op = "idle"
    /\ \E S \in Monoids \cup Semigroups :
        \E x, y \in Carrier(S) :
            /\ aliased' = FALSE
            /\ call' = <<"concat", S, <<x, y>>,
                        concat(S, x, y)>>

NextConcat == Concat \/ Return
SpecConcat == Init /\ [][NextConcat]_vars

---------------------------------------------------------------------------
(* Claims on concat and empty, checked under SpecConcat. *)

PointSum(p, q) == [x |-> p.x + q.x, y |-> p.y + q.y]

(* C1: monoidPoint combines two Points field by field, concat(p, q) =       *)
(* {x: p.x + q.x, y: p.y + q.y}, its empty is {x: 0, y: 0}, it returns what *)
(* semigroupPoint and getStructSemigroup({x: semigroupSum, y: semigroupSum})*)
(* return, {x:10,y:15} with {x:3,y:5} gives {x:13,y:20}, and monoidVector   *)
(* and semigroupVector do the same on the two Points of a Vector.           *)
C1_StructMonoidFieldwise ==
    op = "concat" =>
        /\ inst \in {"monoidPoint", "semigroupPoint", "semigroupPointB"} =>
               res = PointSum(args[1], args[2])
        /\ inst = "monoidPoint" =>
               /\ res = semigroupPoint_concat(args[1], args[2])
               /\ res = semigroupPointB_concat(args[1], args[2])
               /\ empty(inst) = [x |-> 0, y |-> 0]
               /\ (args = <<[x |-> 10, y |-> 15], [x |-> 3, y |-> 5]>>
                     => res = [x |-> 13, y |-> 20])
        /\ inst \in {"monoidVector", "semigroupVector"} =>
               res = [from |-> PointSum(args[1].from, args[2].from),
                      to |-> PointSum(args[1].to, args[2].to)]
        /\ inst = "monoidVector" =>
               /\ res = semigroupVector_concat(args[1], args[2])
               /\ empty(inst) = [from |-> [x |-> 0, y |-> 0], to |-> [x |-> 0, y |-> 0]]

C1_Witness ==
    /\ op = "concat"
    /\ inst = "monoidPoint"
    /\ args = <<[x |-> 10, y |-> 15], [x |-> 3, y |-> 5]>>
    /\ res = [x |-> 13, y |-> 20]

(* C2: every monoid instance of the source satisfies both identity laws:    *)
(* concat(x, empty) = x and concat(empty, x) = x for every x of its carrier.*)
C2_MonoidIdentity ==
    (op = "concat" /\ inst \in Monoids) =>
        /\ args[2] = empty(inst) => res = args[1]
        /\ args[1] = empty(inst) => res = args[2]
        /\ inst = "specMonoidM" => (rightIdentity(args[1]) /\ leftIdentity(args[1]))

(* M.concat(some(1), M.empty) of 07-applicative.ts:307 *)
C2_Witness ==
    /\ op = "concat"
    /\ inst = "optionM"
    /\ args = <<some(1), empty("optionM")>>
    /\ res = some(1)

(* C5: semigroupSpace has no identity element: whatever string e is taken   *)
(* as the candidate, on the right or on the left, concat never returns the  *)
(* other operand (the result is longer than both by the separator).         *)
C5_SpaceHasNoIdentity ==
    (op = "concat" /\ inst = "semigroupSpace") =>
        /\ res # args[1]
        /\ res # args[2]
        /\ Len(res) = Len(args[1]) + Len(args[2]) + 1

C5_Witness ==
    /\ op = "concat"
    /\ inst = "semigroupSpace"
    /\ args = <<<<97>>, <<>>>>
    /\ res = <<97, Space>>

---------------------------------------------------------------------------
(* The associativity law, as the semigroup test states it for its S: both   *)
(* groupings of three values of the carrier are computed.                   *)

AssociativityLaw ==
    /\ op = "idle"
    /\ \E S \in Semigroups :
        \E x, y, z \in Carrier(S) :
            /\ aliased' = FALSE
            /\ call' = <<"associativityLaw", S, <<x, y, z>>,
                        [left |-> concat(S, concat(S, x, y), z),
                         right |-> concat(S, x, concat(S, y, z))]>>

(* The predicate of fc.property(arb, arb, arb, associativity), evaluated on *)
(* a triple of strings.                                                     *)
AssociativityProperty ==
    /\ op = "idle"
    /\ \E x, y, z \in Strings :
        /\ aliased' = FALSE
        /\ call' = <<"associativity", "specSemigroupS", <<x, y, z>>,
                    associativity(x, y, z)>>

NextAssoc == AssociativityLaw \/ AssociativityProperty \/ Return
SpecAssoc == Init /\ [][NextAssoc]_vars

(* C3: every semigroup instance of the source is associative:               *)
(* concat(concat(x, y), z) = concat(x, concat(y, z)) for all x, y, z of its *)
(* carrier.                                                                 *)
C3_SemigroupAssociative ==
    op = "associativityLaw" => res.left = res.right

(* Three customers whose names tie in length, then a longer one. *)
C3_Witness ==
    /\ op = "associativityLaw"
    /\ inst = "semigroupCustomer"
    /\ args[1].name = <<97>> /\ args[2].name = <<98>> /\ args[3].name = <<97, 98>>
    /\ args[1].favouriteThings # args[2].favouriteThings
    /\ res.left.name = <<97, 98>>
    /\ res.left = res.right

(* C4 as the spec states it: the separator concat is unlawful, the triple   *)
(* "a", "b", "c" makes the associativity predicate false.                   *)
C4_SeparatorUnlawful ==
    (op = "associativity" /\ args = <<<<97>>, <<98>>, <<99>>>>) => res = FALSE

(* C4, amended: the separator concat is associative: on every triple of     *)
(* strings the predicate is true, both groupings being                      *)
(* x + ' ' + y + ' ' + z.                                                   *)
C4_SeparatorAssociative ==
    op = "associativity" =>
        /\ res = TRUE
        /\ specSemigroupS_concat(specSemigroupS_concat(args[1], args[2]), args[3])
             = args[1] \o <<Space>> \o args[2] \o <<Space>> \o args[3]
        /\ specSemigroupS_concat(args[1], specSemigroupS_concat(args[2], args[3]))
             = args[1] \o <<Space>> \o args[2] \o <<Space>> \o args[3]

C4_Witness ==
    /\ op = "associativity"
    /\ args = <<<<97>>, <<98>>, <<99>>>>
    /\ res = TRUE

---------------------------------------------------------------------------
(* Eq, 05-category.ts.  An Eq instance is named by a string; equals(E, x, y)*)
(* is E.equals(x, y).                                                       *)

RECURSIVE equals(_, _, _)

eqNumber_equals(x, y) == strictEqual(x, y)

eqPointManual_equals(p1, p2) == strictEqual(p1.x, p2.x) /\ strictEqual(p1.y, p2.y)

eqPointManualB_equals(p1, p2) ==
    sameReference(p1, p2) \/ (strictEqual(p1.x, p2.x) /\ strictEqual(p1.y, p2.y))

(* fromEquals of fp-ts/lib/Eq: equals is (x, y) => x === y || e(x, y), where *)
(* same is the value of x === y and e that of e(x, y).                       *)
fromEquals(same, e) == same \/ e

(* E.equals(x[k], y[k]) when x or y has no property k: eqNumber compares    *)
(* with ===, and undefined is === to undefined only.                        *)
equalsUndefined(E, hasX, hasY) == CASE E = "eqNumber" -> (~hasX /\ ~hasY)

(* true returned from inside the loop, at the first key that is equal. *)
getStructEq_anyField(eqs, x, y) ==
    fromEquals(sameReference(x, y),
               \E k \in DOMAIN eqs : equals(eqs[k], x[k], y[k]))

(* getStructEq(eqs) of fp-ts/lib/Eq: fromEquals of "no key k of eqs has      *)
(* eqs[k].equals(x[k], y[k]) false"                                          *)
getStructEq(eqs, x, y) ==
    fromEquals(sameReference(x, y),
               \A k \in DOMAIN eqs :
                   IF hasProperty(x, k) /\ hasProperty(y, k)
                   THEN equals(eqs[k], x[k], y[k])
                   ELSE equalsUndefined(eqs[k], hasProperty(x, k), hasProperty(y, k)))

eqPoint_equals(x, y) == getStructEq([x |-> "eqNumber", y |-> "eqNumber"], x, y)

eqVector_equals(x, y) == getStructEq([from |-> "eqPoint", to |-> "eqPoint"], x, y)

(* getEq(E) of fp-ts/lib/Array: xs === ys ||                                 *)
(* (xs.length === ys.length && xs.every((x, i) => E.equals(x, ys[i])))       *)
getEq(E, xs, ys) ==
    \/ sameReference(xs, ys)
    \/ /\ strictEqual(Len(xs), Len(ys))
       /\ \A i \in 1..Len(xs) : equals(E, xs[i], ys[i])

eqArrayOfPoints_equals(xs, ys) == getEq("eqPoint", xs, ys)

(* type User = { userId, name } of 05-category.ts, and (user) => user.userId *)
UserIds == 1..MaxInt
IdentifiedUsers == [userId : UserIds, name : {"Serj", "Morello", "Geezer"}]
eqUser_projectName(user) == user.name
eqUser_project(user) == user.userId

(* contramap(f)(E) of fp-ts/lib/Eq is fromEquals((x, y) => E.equals(f(x), f(y))) *)
eqUser_equals(x, y) ==
    fromEquals(sameReference(x, y),
               eqNumber_equals(eqUser_project(x), eqUser_project(y)))

equals(E, x, y) ==
    CASE E = "eqNumber" -> eqNumber_equals(x, y)
      [] E = "eqPointManual" -> eqPointManual_equals(x, y)
      [] E = "eqPointManualB" -> eqPointManualB_equals(x, y)
      [] E = "eqPoint" -> eqPoint_equals(x, y)
      [] E = "eqVector" -> eqVector_equals(x, y)
      [] E = "eqArrayOfPoints" -> eqArrayOfPoints_equals(x, y)
      [] E = "eqUser" -> eqUser_equals(x, y)

Eqs ==
    {"eqNumber", "eqPointManual", "eqPointManualB", "eqPoint", "eqVector",
     "eqArrayOfPoints", "eqUser"}

(* point1 (= point2), point3, point5 (= point6 = point7 = point8) *)
ArrayPoints == {[x |-> 1, y |-> 2], [x |-> 2, y |-> 3], [x |-> 10, y |-> 4]}
PointArrays == UNION {[1..k -> ArrayPoints] : k \in 0..MaxArr}

EqCarrier(E) ==
    CASE E = "eqNumber" -> Ints
      [] E \in {"eqPointManual", "eqPointManualB", "eqPoint"} -> Points
      [] E = "eqVector" -> Vectors
      [] E = "eqArrayOfPoints" -> PointArrays
      [] E = "eqUser" -> IdentifiedUsers

(* Whether two arguments of the instance can be one reference. *)
EqOnObjects(E) == E # "eqNumber"

---------------------------------------------------------------------------
(* The calls on Eq and Ord instances.  The orderings called are those of    *)
(* the source and their duals, once and twice.                              *)

Ords ==
    UNION {{<<O>>, getDualOrd(<<O>>), getDualOrd(getDualOrd(<<O>>))} : O \in BaseOrds}

Aliasings(objects) == IF objects THEN BOOLEAN ELSE {FALSE}

(* E.equals(x, y) *)
Equals ==
    /\ op = "idle"
    /\ \E E \in Eqs :
        \E x, y \in EqCarrier(E) :
            \E a \in Aliasings(EqOnObjects(E)) :
                /\ aliased' = a
                /\ call' = <<"equals", E, <<x, y>>,
                            equals(E, x, y)'>>

(* O.compare(x, y) *)
Compare ==
    /\ op = "idle"
    /\ \E O \in Ords :
        \E x, y \in OrdCarrier(O) :
            \E a \in Aliasings(OnObjects(O)) :
                /\ aliased' = a
                /\ call' = <<"compare", O, <<x, y>>,
                            compare(O, x, y)'>>

(* min(O)(x, y) *)
Min ==
    /\ op = "idle"
    /\ \E O \in BaseOrds :
        \E x, y \in OrdCarrier(<<O>>) :
            \E a \in Aliasings(OnObjects(<<O>>)) :
                /\ aliased' = a
                /\ call' = <<"min", <<O>>, <<x, y>>,
                            min(<<O>>, x, y)'>>

(* max(O)(x, y) *)
Max ==
    /\ op = "idle"
    /\ \E O \in BaseOrds :
        \E x, y \in OrdCarrier(<<O>>) :
            \E a \in Aliasings(OnObjects(<<O>>)) :
                /\ aliased' = a
                /\ call' = <<"max", <<O>>, <<x, y>>,
                            max(<<O>>, x, y)'>>

NextEqOrd == Equals \/ Compare \/ Min \/ Max \/ Return
SpecEqOrd == Init /\ [][NextEqOrd]_vars

---------------------------------------------------------------------------
(* Claims on Eq and Ord, checked under SpecEqOrd. *)

(* The same call with its two arguments exchanged. *)
Swapped == IF op = "min" THEN min(inst, args[2], args[1]) ELSE max(inst, args[2], args[1])

(* The orderings of numbers and strings by their values. *)
ValueOrds == {<<"ordNumberA">>, <<"ordNumber">>, <<"fpOrdNumber">>, <<"ordString">>}

(* C6: min(O)(x, y), and getMeetSemigroup(O).concat, return y when          *)
(* O.compare(x, y) is 1 and x otherwise, ties included, an argument that is *)
(* <= the other; max(O)(x, y) = min(getDualOrd(O))(x, y), and               *)
(* getJoinSemigroup(O).concat, return an argument that is >= the other;     *)
(* a value combined with itself is returned.                                *)
C6_MinMaxOfOrd ==
    /\ op = "min" =>
        /\ res = (IF compare(inst, args[1], args[2]) = 1 THEN args[2] ELSE args[1])
        /\ res = getMeetSemigroup(inst, args[1], args[2])
        /\ compare(inst, res, args[1]) <= 0
        /\ compare(inst, res, args[2]) <= 0
    /\ op = "max" =>
        /\ res = min(getDualOrd(inst), args[1], args[2])
        /\ res = getJoinSemigroup(inst, args[1], args[2])
        /\ compare(inst, res, args[1]) >= 0
        /\ compare(inst, res, args[2]) >= 0
    /\ op \in {"min", "max"} =>
        /\ res \in {args[1], args[2]}
        /\ args[1] = args[2] => res = args[1]

(* min(byAge)(user1, user2) of 02-ord.ts:88 *)
C6_Witness ==
    /\ op = "min"
    /\ inst = <<"byAge">>
    /\ args = <<[name |-> "Dimebag", age |-> 34], [name |-> "Mercury", age |-> 31]>>
    /\ res = [name |-> "Mercury", age |-> 31]

(* C7 as the spec states it: meet and join return the same value whichever  *)
(* the order of the two arguments, for every ordering of the source.        *)
C7_MeetJoinCommutative ==
    op \in {"min", "max"} => res = Swapped

(* C7, amended: meet and join are commutative in the returned value for the *)
(* orderings of numbers and strings by value; for every ordering, the ones  *)
(* derived by contramap included, the two results are equal under the       *)
(* ordering and are one value unless the arguments tie, when each call      *)
(* returns its own first argument.                                          *)
C7_MeetJoinCommutativeUpToOrd ==
    op \in {"min", "max"} =>
        /\ compare(inst, res, Swapped) = 0
        /\ inst \in ValueOrds => res = Swapped
        /\ compare(inst, args[1], args[2]) # 0 => res = Swapped
        /\ compare(inst, args[1], args[2]) = 0 => (res = args[1] /\ Swapped = args[2])

(* Two users of one age and different names. *)
C7_Witness ==
    /\ op = "min"
    /\ inst = <<"byAge">>
    /\ args[1].age = args[2].age
    /\ args[1].name # args[2].name
    /\ res = args[1]
    /\ Swapped = args[2]

(* C8: getDualOrd(O).compare(x, y) = -O.compare(x, y), so x <= y under the  *)
(* dual iff y <= x under O, and the dual of the dual compares as O does.    *)
C8_DualOrd ==
    (op = "compare" /\ Len(inst) >= 2) =>
        /\ res = -compare(Tail(inst), args[1], args[2])
        /\ (res <= 0) <=> (compare(Tail(inst), args[2], args[1]) <= 0)
        /\ Len(inst) = 3 => res = compare(Tail(Tail(inst)), args[1], args[2])

C8_Witness ==
    /\ op = "compare"
    /\ inst = getDualOrd(<<"byAge">>)
    /\ args[1].age < args[2].age
    /\ res = 1

(* C9: eqUser.equals(x, y) = eqNumber.equals(x.userId, y.userId), whatever  *)
(* the names, and byAge compares every pair of users as byAgeA does, by     *)
(* ordNumber on the ages.                                                   *)
C9_Contramap ==
    /\ (op = "equals" /\ inst = "eqUser") =>
           res = eqNumber_equals(args[1].userId, args[2].userId)
    /\ (op = "compare" /\ inst = <<"byAge">>) =>
           /\ res = byAgeA_compare(args[1], args[2])
           /\ res = ordNumber_compare(args[1].age, args[2].age)

(* eqUser.equals(user1, user3) of 05-category.ts:269 *)
C9_Witness ==
    /\ op = "equals"
    /\ inst = "eqUser"
    /\ args = <<[userId |-> 1, name |-> "Serj"], [userId |-> 1, name |-> "Geezer"]>>
    /\ res = TRUE

SamePoint(p, q) == p.x = q.x /\ p.y = q.y

(* C10: eqPoint is true exactly when both fields are equal, as              *)
(* eqPointManual and eqPointManualB are; eqVector is true exactly when the  *)
(* two Points of the Vectors are, and getEq(eqPoint) exactly when the       *)
(* arrays have one length and equal elements; all are reflexive, symmetric  *)
(* and transitive.                                                          *)
C10_StructEq ==
    (op = "equals" /\ inst # "eqUser" /\ inst # "eqNumber") =>
        /\ inst \in {"eqPoint", "eqPointManual", "eqPointManualB"} =>
            /\ res = SamePoint(args[1], args[2])
            /\ res = eqPointManual_equals(args[1], args[2])
            /\ res = eqPointManualB_equals(args[1], args[2])
        /\ inst = "eqVector" =>
            res = (SamePoint(args[1].from, args[2].from) /\ SamePoint(args[1].to, args[2].to))
        /\ inst = "eqArrayOfPoints" =>
            res = (/\ Len(args[1]) = Len(args[2])
                   /\ \A i \in 1..Len(args[1]) : SamePoint(args[1][i], args[2][i]))
        /\ args[1] = args[2] => res
        /\ res = equals(inst, args[2], args[1])
        /\ res => \A z \in EqCarrier(inst) :
                      equals(inst, args[2], z) => equals(inst, args[1], z)

(* eqPoint.equals(point1, point2) of 05-category.ts:221, two objects *)
C10_Witness ==
    /\ op = "equals"
    /\ inst = "eqPoint"
    /\ args = <<[x |-> 1, y |-> 2], [x |-> 1, y |-> 2]>>
    /\ ~aliased
    /\ res = TRUE

---------------------------------------------------------------------------
(* The struct combinators, called on a map of field instances, and the     *)
(* instance they return, called on two Points.  The combinators of fp-ts   *)
(* read the map only: getStructEq and getStructSemigroup keep it for the   *)
(* calls to come, getStructMonoid also computes empty from it.             *)

PointFields == {"x", "y"}

(* The fields of Point and a field Point does not have. *)
FieldNames == PointFields \cup {"z"}

StructCombinators == {"getStructEq", "getStructSemigroup", "getStructMonoid"}

(* The instance given for each field: eqNumber, semigroupSum, monoidSum. *)
FieldInstance(c) ==
    CASE c = "getStructEq" -> "eqNumber"
      [] c = "getStructSemigroup" -> "semigroupSum"
      [] c = "getStructMonoid" -> "monoidSum"

FieldMaps(c) == {[k \in ks |-> FieldInstance(c)] : ks \in (SUBSET FieldNames) \ {{}}}

(* A combinator that compares the keys of the map with the fields of Point. *)
construct_checked(c, m) ==
    IF DOMAIN m # PointFields THEN [error |-> "ShapeMismatch"]
    ELSE IF c = "getStructMonoid" THEN [fields |-> m, empty |-> getStructMonoid_empty(m)]
    ELSE [fields |-> m]

(* What the combinator returns: an instance closed over the map. *)
construct(c, m) ==
    IF c = "getStructMonoid" THEN [fields |-> m, empty |-> getStructMonoid_empty(m)]
    ELSE [fields |-> m]

(* equals or concat of the instance built by combinator c from the map m *)
structCall(c, m, x, y) ==
    CASE c = "getStructEq" -> getStructEq(m, x, y)
      [] c = "getStructSemigroup" -> getStructSemigroup(m, x, y)
      [] c = "getStructMonoid" -> getStructMonoid_concat(m, x, y)

Construct ==
    /\ op = "idle"
    /\ \E c \in StructCombinators :
        \E m \in FieldMaps(c) :
            /\ aliased' = FALSE
            /\ call' = <<"construct", c, <<m>>, construct(c, m)>>

(* A call on the instance just built, when building it returned one. *)
StructCall ==
    /\ op = "construct"
    /\ "fields" \in DOMAIN res
    /\ \E c \in {inst} :
        \E m \in {res.fields} :
            \E x, y \in Points :
                \E a \in BOOLEAN :
                    /\ aliased' = a
                    /\ call' = <<"structCall", c, <<m, x, y>>,
                                structCall(c, m, x, y)'>>

NextStruct == Construct \/ StructCall \/ Return
SpecStruct == Init /\ [][NextStruct]_vars

---------------------------------------------------------------------------
(* The laws of 02-ord.ts:31-39, evaluated on an ordering and three values  *)
(* of its carrier: the calls of compare and equals the laws are about.     *)

OrdLawCalls(O, x, y, z) ==
    [xx |-> compare(O, x, x),
     xy |-> compare(O, x, y),
     yx |-> compare(O, y, x),
     yz |-> compare(O, y, z),
     xz |-> compare(O, x, z),
     equals |-> ordEquals(O, x, y)]

(* The orderings of the laws: those of the source and their duals. *)
LawOrds == {O \in Ords : Len(O) <= 2}

OrdLaws ==
    /\ op = "idle"
    /\ \E O \in LawOrds :
        \E x, y, z \in OrdCarrier(O) :
            \E a \in Aliasings(OnObjects(O)) :
                /\ aliased' = a
                /\ call' = <<"ordLaws", O, <<x, y, z>>,
                            OrdLawCalls(O, x, y, z)'>>

NextOrdLaws == OrdLaws \/ Return
SpecOrdLaws == Init /\ [][NextOrdLaws]_vars

(* C12: every ordering of the source and its dual is reflexive,            *)
(* compare(x, x) = 0; antisymmetric, compare(x, y) <= 0 and                *)
(* compare(y, x) <= 0 imply equals(x, y); and transitive,                  *)
(* compare(x, y) <= 0 and compare(y, z) <= 0 imply compare(x, z) <= 0.     *)
C12_OrdLaws ==
    op = "ordLaws" =>
        /\ res.xx = 0
        /\ (res.xy <= 0 /\ res.yx <= 0) => res.equals
        /\ (res.xy <= 0 /\ res.yz <= 0) => res.xz <= 0

(* Three users, two of one age, under the dual of byAge. *)
C12_Witness ==
    /\ op = "ordLaws"
    /\ inst = getDualOrd(<<"byAge">>)
    /\ ~aliased
    /\ args[1].age = args[2].age /\ args[1].name # args[2].name
    /\ args[3].age < args[2].age
    /\ res.xy = 0 /\ res.yz = -1 /\ res.xz = -1
    /\ res.equals

(* C13: for every ordering of the source, compare(x, y) = 0 exactly when   *)
(* equals(x, y) is true; two users of one age and different names are      *)
(* equal under byAge and byAgeA.                                           *)
C13_CompareAgreesWithEquals ==
    op = "ordLaws" =>
        /\ (res.xy = 0) <=> res.equals
        /\ inst \in {<<"byAge">>, <<"byAgeA">>} =>
               (res.equals <=> args[1].age = args[2].age)
        /\ inst \in {<<"ordNumberA">>, <<"ordNumber">>} =>
               (res.equals <=> args[1] = args[2])

C13_Witness ==
    /\ op = "ordLaws"
    /\ inst = <<"byAgeA">>
    /\ ~aliased
    /\ args[1] = [name |-> "Dimebag", age |-> 34]
    /\ args[2] = [name |-> "Mercury", age |-> 34]
    /\ res.xy = 0
    /\ res.equals

---------------------------------------------------------------------------
(* Claims on the monoids of Option, checked under SpecConcat. *)

SettingsFields == {"fontFamily", "fontSize", "maxColumn"}

(* C14: getFirstMonoid().concat(x, y) is x when x is some, otherwise y;    *)
(* getLastMonoid().concat(x, y) is y when y is some, otherwise x; in both  *)
(* concat(none, none) = none and empty = none; monoidSettings.concat takes *)
(* each field from the right operand when it is some there and from the    *)
(* left one otherwise, so concat(workspaceSettings, userSettings) has the  *)
(* user's font family and size and the workspace's column limit.           *)
C14_FirstLastMonoid ==
    op = "concat" =>
        /\ inst = "getFirstMonoid" =>
            /\ res = (IF isSome(args[1]) THEN args[1] ELSE args[2])
            /\ empty(inst) = none
        /\ inst = "getLastMonoid" =>
            /\ res = (IF isSome(args[2]) THEN args[2] ELSE args[1])
            /\ empty(inst) = none
        /\ (inst \in {"getFirstMonoid", "getLastMonoid"} /\ args = <<none, none>>) =>
            res = none
        /\ inst = "monoidSettings" =>
            /\ DOMAIN res = SettingsFields
            /\ \A f \in SettingsFields :
                   res[f] = (IF isSome(args[2][f]) THEN args[2][f] ELSE args[1][f])
            /\ args = <<workspaceSettings, userSettings>> =>
                   res = [fontFamily |-> userSettings.fontFamily,
                          fontSize |-> some(12),
                          maxColumn |-> some(80)]

(* monoidSettings.concat(workspaceSettings, userSettings) of 07-applicative.ts:378 *)
C14_Witness ==
    /\ op = "concat"
    /\ inst = "monoidSettings"
    /\ args = <<workspaceSettings, userSettings>>
    /\ res.fontSize = some(12)
    /\ res.maxColumn = some(80)
    /\ res.fontFamily = userSettings.fontFamily

---------------------------------------------------------------------------
(* fold.  fold(S) of fp-ts/lib/Semigroup is (a, as) => as.reduce(S.concat, *)
(* a); fold(M) of fp-ts/lib/Monoid is as => fold of the semigroup (M.empty,*)
(* as).                                                                    *)

MaxFold == 4

(* Array.prototype.reduce with an initial value: the elements are taken    *)
(* from the first to the last.                                             *)
RECURSIVE reduce(_, _, _)
reduce(S, a, xs) ==
    IF xs = <<>> THEN a
    ELSE reduce(S, concat(S, a, Head(xs)), Tail(xs))

(* Array.prototype.reduceRight: the elements taken from the last to the    *)
(* first.                                                                  *)
RECURSIVE reduceRight(_, _, _)
reduceRight(S, a, xs) ==
    IF xs = <<>> THEN a
    ELSE reduceRight(S, concat(S, a, xs[Len(xs)]), SubSeq(xs, 1, Len(xs) - 1))

foldSemigroup_fromTheRight(S, a, xs) == reduceRight(S, a, xs)

foldSemigroup(S, a, xs) == reduce(S, a, xs)

foldMonoid(M, xs) == foldSemigroup(M, empty(M), xs)

(* The instances folded: those the source folds (sum, product, concatStr,  *)
(* foldCustomer; monoidSum .. monoidAny) and the instances that keep the   *)
(* first, the last, or all the elements.                                   *)
FoldedSemigroups ==
    {"semigroupSum", "semigroupProduct", "semigroupString", "semigroupCustomer",
     "getFirstSemigroup", "getLastSemigroup", "getArraySemigroup"}

FoldedMonoids == {"monoidSum", "monoidProduct", "monoidString", "monoidAll", "monoidAny"}

(* The elements folded: the numbers of [1, 2, 3, 4], the strings of        *)
(* ['a', 'b', 'c'] and ['hello', ' ', 'world'] (and the empty string),     *)
(* arrays of at most one string, customers that differ in name and         *)
(* favourite things.                                                       *)
FoldNumbers == Ints \cup 1..MaxFold
FoldStrings == SampleStrings \cup {<<>>, <<Space>>}
FoldArrays == {xs \in Arrays : Len(xs) <= 1}
FoldCustomers ==
    {c \in Customers : c.registeredAt = 0 /\ c.lastUpdatedAt = 0 /\ ~c.hasMadePurchase}

FoldCarrier(S) ==
    CASE S \in {"semigroupSum", "semigroupProduct", "getFirstSemigroup",
                "monoidSum", "monoidProduct"} -> FoldNumbers
      [] S \in {"semigroupString", "getLastSemigroup", "monoidString"} -> FoldStrings
      [] S = "getArraySemigroup" -> FoldArrays
      [] S = "semigroupCustomer" -> FoldCustomers
      [] S \in {"monoidAll", "monoidAny"} -> Booleans

SeqsUpTo(A, n) == UNION {[1..k -> A] : k \in 0..n}

(* fold(S)(a, as) *)
FoldSemigroup ==
    /\ op = "idle"
    /\ \E S \in FoldedSemigroups :
        \E a \in FoldCarrier(S) :
            \E xs \in SeqsUpTo(FoldCarrier(S), MaxFold) :
                /\ aliased' = FALSE
                /\ call' = <<"foldSemigroup", S, <<a, xs>>, foldSemigroup(S, a, xs)>>

(* fold(M)(as) *)
FoldMonoid ==
    /\ op = "idle"
    /\ \E M \in FoldedMonoids :
        \E xs \in SeqsUpTo(FoldCarrier(M), MaxFold) :
            /\ aliased' = FALSE
            /\ call' = <<"foldMonoid", M, <<xs>>, foldMonoid(M, xs)>>

NextFold == FoldSemigroup \/ FoldMonoid \/ Return
SpecFold == Init /\ [][NextFold]_vars

(* concat(...concat(concat(a, x1), x2)..., xn), built from its last concat. *)
RECURSIVE LeftNested(_, _, _)
LeftNested(S, a, xs) ==
    IF xs = <<>> THEN a
    ELSE concat(S, LeftNested(S, a, SubSeq(xs, 1, Len(xs) - 1)), xs[Len(xs)])

(* x1 + x2 + ... + xn on strings or arrays *)
RECURSIVE Flatten(_)
Flatten(xs) == IF xs = <<>> THEN <<>> ELSE Head(xs) \o Flatten(Tail(xs))

(* C15: fold(S)(a, [x1..xn]) = concat(...concat(concat(a, x1), x2)..., xn) *)
(* and is a on the empty sequence; fold(M)(xs) is the fold of the          *)
(* semigroup from M.empty, and M.empty on the empty sequence; the order is *)
(* observable: strings and arrays are concatenated first to last, the      *)
(* semigroup of the first keeps a, that of the last keeps xn.              *)
C15_FoldLeftToRight ==
    /\ op = "foldSemigroup" =>
        /\ res = LeftNested(inst, args[1], args[2])
        /\ args[2] = <<>> => res = args[1]
        /\ Len(args[2]) = 1 => res = concat(inst, args[1], args[2][1])
        /\ Len(args[2]) = 2 =>
               res = concat(inst, concat(inst, args[1], args[2][1]), args[2][2])
        /\ Len(args[2]) = 3 =>
               res = concat(inst, concat(inst, concat(inst, args[1], args[2][1]),
                                         args[2][2]), args[2][3])
        /\ inst \in {"semigroupString", "getArraySemigroup"} =>
               res = args[1] \o Flatten(args[2])
        /\ inst = "getFirstSemigroup" => res = args[1]
        /\ (inst = "getLastSemigroup" /\ args[2] # <<>>) => res = args[2][Len(args[2])]
    /\ op = "foldMonoid" =>
        /\ res = LeftNested(inst, empty(inst), args[1])
        /\ res = foldSemigroup(inst, empty(inst), args[1])
        /\ args[1] = <<>> => res = empty(inst)
        /\ inst = "monoidString" => res = Flatten(args[1])

(* fold(monoidString)(['a', 'b', 'c']) of 07-applicative.ts:282 is 'abc' *)
C15_Witness ==
    /\ op = "foldMonoid"
    /\ inst = "monoidString"
    /\ args = << <<<<97>>, <<98>>, <<99>>>> >>
    /\ res = <<97, 98, 99>>

---------------------------------------------------------------------------
(* Applicative, 07-applicative.ts.  A function is a value: a record naming *)
(* it, with the first argument b once a curried g has been given it.       *)
(* apply(f, a) is f(a).  Next to the value an operation returns, the model *)
(* keeps the applications it makes, in order: <<f, a>> for each f(a).      *)

(* (st) => st.length and (st) => st.length + 1 of 07-applicative.ts:103 *)
UnaryFunctions == {[fn |-> "length"], [fn |-> "lengthPlus1"]}

(* Curried functions g: (b) => (c) => b - c and (b) => (c) => 10 * b + c *)
CurriedFunctions == {[fn |-> "minus"], [fn |-> "decimal"]}

RECURSIVE apply(_, _)
apply(f, a) ==
    CASE f.fn = "length" -> Len(a)
      [] f.fn = "identity" -> a
      [] f.fn = "double" -> a * 2
      [] f.fn = "compose" -> apply(f.g, apply(f.f, a))
      [] f.fn = "isPositiveX" -> a.x >= 0
      [] f.fn = "isPositiveY" -> a.y >= 0
      [] f.fn = "pointwise" -> concat(f.S, apply(f.f, a), apply(f.g, a))
      [] f.fn = "lengthPlus1" -> Len(a) + 1
      [] f.fn = "minus" -> IF "b" \in DOMAIN f THEN f.b - a ELSE [fn |-> "minus", b |-> a]
      [] f.fn = "decimal" -> IF "b" \in DOMAIN f THEN 10 * f.b + a ELSE [fn |-> "decimal", b |-> a]

(* flatten of fp-ts/lib/Array *)
RECURSIVE flatten(_)
flatten(xss) == IF xss = <<>> THEN <<>> ELSE Head(xss) \o flatten(Tail(xss))

(* applicativeArray *)
applicativeArray_map(fa, f) == [i \in 1..Len(fa) |-> apply(f, fa[i])]
applicativeArray_of(a) == <<a>>

(* For each value of fa, every function of fab: value-major order. *)
applicativeArray_apValueMajor(fab, fa) ==
    flatten([j \in 1..Len(fa) |-> [i \in 1..Len(fab) |-> apply(fab[i], fa[j])]])

applicativeArray_ap(fab, fa) ==
    flatten([i \in 1..Len(fab) |-> applicativeArray_map(fa, fab[i])])

applicativeArray_map_applied(fa, f) == [i \in 1..Len(fa) |-> <<f, fa[i]>>]
applicativeArray_ap_applied(fab, fa) ==
    flatten([i \in 1..Len(fab) |-> applicativeArray_map_applied(fa, fab[i])])

(* array of fp-ts/lib/Array: map is fa.map((a) => f(a)), ap is             *)
(* flatten(array.map(fab, (f) => array.map(fa, f)))                        *)
array_map(fa, f) == [i \in 1..Len(fa) |-> apply(f, fa[i])]
array_ap(fab, fa) == flatten([i \in 1..Len(fab) |-> array_map(fa, fab[i])])
array_map_applied(fa, f) == [i \in 1..Len(fa) |-> <<f, fa[i]>>]
array_ap_applied(fab, fa) ==
    flatten([i \in 1..Len(fab) |-> array_map_applied(fa, fab[i])])

(* liftArr(g)(fb) and liftOpt(g)(fb) *)
liftArr(g, fb) == [i \in 1..Len(fb) |-> apply(g, fb[i])]
liftOpt(g, fb) == IF isNone(fb) THEN none ELSE some(apply(g, fb.value))

(* A map of Response that sets the status of its result. *)
functorResponse_mapResetsStatus(fa, f) ==
    [fa EXCEPT !.body = apply(f, fa.body), !.status = 200]

(* map of functorResponse: { ...fa, body: f(fa.body) } *)
functorResponse_map(fa, f) == [fa EXCEPT !.body = apply(f, fa.body)]

(* A map that gives none whatever fa is. *)
applicativeOption_mapToNone(fa, f) == none

(* applicativeOption *)
applicativeOption_map(fa, f) == IF isNone(fa) THEN none ELSE some(apply(f, fa.value))
applicativeOption_of(a) == some(a)
applicativeOption_ap(fab, fa) ==
    IF isNone(fab) THEN none ELSE applicativeOption_map(fa, fab.value)

applicativeOption_map_applied(fa, f) ==
    IF isNone(fa) THEN <<>> ELSE << <<f, fa.value>> >>
applicativeOption_ap_applied(fab, fa) ==
    IF isNone(fab) THEN <<>> ELSE applicativeOption_map_applied(fa, fab.value)

(* option of fp-ts/lib/Option: map is isNone(ma) ? none :                  *)
(* some(f(ma.value)), ap is isNone(mab) ? none : isNone(ma) ? none :       *)
(* some(mab.value(ma.value))                                               *)
option_map(ma, f) == IF isNone(ma) THEN none ELSE some(apply(f, ma.value))
option_ap(mab, ma) ==
    IF isNone(mab) THEN none
    ELSE IF isNone(ma) THEN none ELSE some(apply(mab.value, ma.value))

option_map_applied(ma, f) == IF isNone(ma) THEN <<>> ELSE << <<f, ma.value>> >>
option_ap_applied(mab, ma) ==
    IF isNone(mab) THEN <<>>
    ELSE IF isNone(ma) THEN <<>> ELSE << <<mab.value, ma.value>> >>

(* F.map and F.ap of the instance F given to liftA2 *)
map(F, fa, f) ==
    CASE F = "array" -> array_map(fa, f)
      [] F = "option" -> option_map(fa, f)
      [] F = "applicativeArray" -> applicativeArray_map(fa, f)
      [] F = "applicativeOption" -> applicativeOption_map(fa, f)
      [] F = "functorResponse" -> functorResponse_map(fa, f)
      [] F = "liftArr" -> liftArr(f, fa)
      [] F = "liftOpt" -> liftOpt(f, fa)

ap(F, fab, fa) ==
    CASE F = "array" -> array_ap(fab, fa)
      [] F = "option" -> option_ap(fab, fa)
      [] F = "applicativeArray" -> applicativeArray_ap(fab, fa)
      [] F = "applicativeOption" -> applicativeOption_ap(fab, fa)

map_applied(F, fa, f) ==
    CASE F = "array" -> array_map_applied(fa, f)
      [] F = "option" -> option_map_applied(fa, f)
      [] F = "applicativeArray" -> applicativeArray_map_applied(fa, f)
      [] F = "applicativeOption" -> applicativeOption_map_applied(fa, f)

ap_applied(F, fab, fa) ==
    CASE F = "array" -> array_ap_applied(fab, fa)
      [] F = "option" -> option_ap_applied(fab, fa)
      [] F = "applicativeArray" -> applicativeArray_ap_applied(fab, fa)
      [] F = "applicativeOption" -> applicativeOption_ap_applied(fab, fa)

(* (g) => (fb) => (fc) => F.ap(F.map(fb, g), fc) *)
liftA2(F, g, fb, fc) == ap(F, map(F, fb, g), fc)

liftA2_applied(F, g, fb, fc) ==
    map_applied(F, fb, g) \o ap_applied(F, map(F, fb, g), fc)

(* The instances: applicativeArray and applicativeOption of the source,    *)
(* and array and option of fp-ts, given to liftA2 in liftA2Array and       *)
(* liftA2Option.                                                           *)
Applicatives == {"array", "option", "applicativeArray", "applicativeOption"}
OnArrays(F) == F \in {"array", "applicativeArray"}

(* The values wrapped: numbers for g, strings for the unary functions. *)
LiftNumbers == 0..MaxInt
Wrapped(F, A) == IF OnArrays(F) THEN SeqsUpTo(A, MaxArr) ELSE Option(A)

(* liftA2(F)(g)(fb)(fc) *)
LiftA2 ==
    /\ op = "idle"
    /\ \E F \in Applicatives :
        \E g \in CurriedFunctions :
            \E fb, fc \in Wrapped(F, LiftNumbers) :
                /\ aliased' = FALSE
                /\ call' = <<"liftA2", F, <<g, fb, fc>>,
                            [value |-> liftA2(F, g, fb, fc),
                             applied |-> liftA2_applied(F, g, fb, fc)]>>

(* F.ap(fab, fa) *)
Ap ==
    /\ op = "idle"
    /\ \E F \in Applicatives :
        \E fab \in Wrapped(F, UnaryFunctions) :
            \E fa \in Wrapped(F, SampleStrings \cup {<<>>}) :
                /\ aliased' = FALSE
                /\ call' = <<"ap", F, <<fab, fa>>,
                            [value |-> ap(F, fab, fa),
                             applied |-> ap_applied(F, fab, fa)]>>

(* F.map(fa, f) *)
Map ==
    /\ op = "idle"
    /\ \E F \in Applicatives :
        \E fa \in Wrapped(F, SampleStrings \cup {<<>>}) :
            \E f \in UnaryFunctions :
                /\ aliased' = FALSE
                /\ call' = <<"map", F, <<fa, f>>,
                            [value |-> map(F, fa, f),
                             applied |-> map_applied(F, fa, f)]>>

NextLift == LiftA2 \/ Ap \/ Map \/ Return
SpecLift == Init /\ [][NextLift]_vars

---------------------------------------------------------------------------
(* Claims on liftA2, ap and map, checked under SpecLift. *)

(* g(b)(c), computed from the definition of g *)
CurriedResult(g, b, c) == IF g.fn = "minus" THEN b - c ELSE 10 * b + c

(* C16: liftA2(F)(g)(fb)(fc) = F.ap(F.map(fb, g), fc); on arrays of        *)
(* lengths N and M the result has N*M elements, the one at i*M + j being   *)
(* g(fb[i])(fc[j]), and is empty when either array is; ap of [f1, f2] and  *)
(* [a, b] is [f1 a, f1 b, f2 a, f2 b].                                     *)
C16_LiftA2Cartesian ==
    /\ op = "liftA2" =>
        res.value = ap(inst, map(inst, args[2], args[1]), args[3])
    /\ (op = "liftA2" /\ OnArrays(inst)) =>
        /\ Len(res.value) = Len(args[2]) * Len(args[3])
        /\ \A i \in 0..(Len(args[2]) - 1) :
               \A j \in 0..(Len(args[3]) - 1) :
                   res.value[i * Len(args[3]) + j + 1]
                       = CurriedResult(args[1], args[2][i + 1], args[3][j + 1])
        /\ (args[2] = <<>> \/ args[3] = <<>>) => res.value = <<>>
    /\ (op = "ap" /\ OnArrays(inst)) =>
        /\ Len(res.value) = Len(args[1]) * Len(args[2])
        /\ \A i \in 0..(Len(args[1]) - 1) :
               \A j \in 0..(Len(args[2]) - 1) :
                   res.value[i * Len(args[2]) + j + 1]
                       = apply(args[1][i + 1], args[2][j + 1])
        /\ (Len(args[1]) = 2 /\ Len(args[2]) = 2) =>
               res.value = <<apply(args[1][1], args[2][1]), apply(args[1][1], args[2][2]),
                             apply(args[1][2], args[2][1]), apply(args[1][2], args[2][2])>>
        /\ (args[1] = <<>> \/ args[2] = <<>>) => res.value = <<>>

(* liftA2 of (b) => (c) => b - c over [2, 1] and [0, 1] *)
C16_Witness ==
    /\ op = "liftA2"
    /\ inst = "array"
    /\ args = <<[fn |-> "minus"], <<2, 1>>, <<0, 1>>>>
    /\ res.value = <<2, 1, 1, 0>>

(* What C17 says of map and ap, and of liftA2 when both arguments are some. *)
OptionMapAp ==
    /\ (op = "map" /\ ~OnArrays(inst)) =>
        /\ isNone(args[1]) => (res.value = none /\ res.applied = <<>>)
        /\ isSome(args[1]) =>
               /\ res.value = some(apply(args[2], args[1].value))
               /\ res.applied = << <<args[2], args[1].value>> >>
    /\ (op = "ap" /\ ~OnArrays(inst)) =>
        /\ (isNone(args[1]) \/ isNone(args[2])) =>
               (res.value = none /\ res.applied = <<>>)
        /\ (isSome(args[1]) /\ isSome(args[2])) =>
               /\ res.value = some(apply(args[1].value, args[2].value))
               /\ res.applied = << <<args[1].value, args[2].value>> >>
    /\ (op = "liftA2" /\ ~OnArrays(inst)) =>
        /\ (isNone(args[2]) \/ isNone(args[3])) => res.value = none
        /\ (isSome(args[2]) /\ isSome(args[3])) =>
               res.value = some(CurriedResult(args[1], args[2].value, args[3].value))

(* C17 as the spec states it: with a none on either side, ap and liftA2    *)
(* return none and g is never applied.                                     *)
C17_NoneNeverApplies ==
    /\ OptionMapAp
    /\ (op = "liftA2" /\ ~OnArrays(inst) /\ (isNone(args[2]) \/ isNone(args[3]))) =>
           res.applied = <<>>

(* C17, amended: ap and liftA2 over Option return none whenever either     *)
(* wrapped argument is none, and some(f(a)), some(g(b)(c)) exactly when    *)
(* both are some; map(none, f) = none and map(some(a), f) = some(f(a)).    *)
(* In ap the wrapped function is not applied when either side is none; in  *)
(* liftA2 g is not applied when fb is none, and with fb = some(b) and      *)
(* fc = none g is applied to b (by F.map) and g(b) is never applied.       *)
C17_NoneGivesNone ==
    /\ OptionMapAp
    /\ (op = "liftA2" /\ ~OnArrays(inst)) =>
        /\ isNone(args[2]) => res.applied = <<>>
        /\ (isSome(args[2]) /\ isNone(args[3])) =>
               res.applied = << <<args[1], args[2].value>> >>
        /\ (isSome(args[2]) /\ isSome(args[3])) =>
               res.applied = << <<args[1], args[2].value>>,
                                <<apply(args[1], args[2].value), args[3].value>> >>

(* liftA2(option)(g)(some(1))(none) *)
C17_Witness ==
    /\ op = "liftA2"
    /\ inst = "option"
    /\ args = <<[fn |-> "minus"], some(1), none>>
    /\ res.value = none
    /\ res.applied = << <<[fn |-> "minus"], 1>> >>

---------------------------------------------------------------------------
(* Task, 07-applicative.ts:126-133.  A Task is a function that returns a   *)
(* promise; running it starts the computation, which later resolves with a *)
(* value or is rejected with a reason.                                     *)
(*   applicativeTask.ap(fab, fa) is                                        *)
(*     () => Promise.all([fab(), fa()]).then(([f, a]) => f(a))             *)
(*   and task.ap of fp-ts/lib/Task, given to liftA2 in liftA2Task, is the  *)
(*   same; in liftA2, fab is F.map(fb, g) = () => fb().then(g).            *)
(* The state of a run is the record res of the call: the promises of fab   *)
(* and fa (and of fb under liftA2), the promise of Promise.all, the        *)
(* promise the task returns (out), how many times fab and fa were started, *)
(* the promises a reaction was attached to, the order in which fab and fa  *)
(* settled, and the applications made.                                     *)

pending == [st |-> "pending"]
resolved(v) == [st |-> "resolved", value |-> v]
rejected(e) == [st |-> "rejected", reason |-> e]
absent == [st |-> "absent"]

(* The functions fab resolves to, the values of fa and fb, the reasons of  *)
(* a rejection.                                                            *)
TaskValues == 0..1
TaskFunctions == {apply(g, b) : g \in CurriedFunctions, b \in TaskValues}
TaskErrors == {"E1", "E2"}

(* fab() only: fa() left for after fab has resolved. *)
startedByRun_fabOnly == [fab |-> 1, fa |-> 0]

(* [fab(), fa()]: both computations are started, fab first, when the task  *)
(* is run.                                                                 *)
startedByRun == [fab |-> 1, fa |-> 1]

(* Promise.all attaches a reaction to each promise of the array, and .then  *)
(* one to the promise of Promise.all.                                      *)
handlersByRun == {"fab", "fa", "all"}

(* A Promise.all that waits for both promises to settle and reports the    *)
(* rejection of the first promise of the array before that of the second.  *)
promiseAll_byPosition(all, fab, fa, settled) ==
    IF all.st # "pending" \/ fab.st = "pending" \/ fa.st = "pending" THEN all
    ELSE IF fab.st = "rejected" THEN rejected(fab.reason)
    ELSE IF fa.st = "rejected" THEN rejected(fa.reason)
    ELSE resolved(<<fab.value, fa.value>>)

(* Promise.all([fab(), fa()]) when the promise named by settled (fab or    *)
(* fa) has just settled: rejected with its reason if it was rejected,      *)
(* resolved with both values once both are resolved; a settled promise     *)
(* does not change.                                                        *)
promiseAll(all, fab, fa, settled) ==
    IF all.st # "pending" THEN all
    ELSE IF settled = "fab" /\ fab.st = "rejected" THEN rejected(fab.reason)
    ELSE IF settled = "fa" /\ fa.st = "rejected" THEN rejected(fa.reason)
    ELSE IF fab.st = "resolved" /\ fa.st = "resolved"
         THEN resolved(<<fab.value, fa.value>>)
    ELSE all

(* The run after the promise named by which (fab or fa) settled as p. *)
settle(T, which, p) ==
    IF which = "fab"
    THEN [T EXCEPT !.fab = p,
                   !.all = promiseAll(T.all, p, T.fa, "fab"),
                   !.order = Append(T.order, <<"fab", p.st>>)]
    ELSE [T EXCEPT !.fa = p,
                   !.all = promiseAll(T.all, T.fab, p, "fa"),
                   !.order = Append(T.order, <<"fa", p.st>>)]

NewRun(fb) ==
    [started |-> startedByRun, handlers |-> handlersByRun,
     fb |-> fb, fab |-> pending, fa |-> pending,
     all |-> pending, out |-> pending, order |-> <<>>, applied |-> <<>>]

(* The task returned by applicativeTask.ap(fab, fa) is run. *)
RunAp ==
    /\ op = "idle"
    /\ aliased' = FALSE
    /\ call' = <<"task", "applicativeTask", <<>>, NewRun(absent)>>

(* The task returned by liftA2Task(g)(fb)(fc) is run: fab() starts fb. *)
RunLiftA2 ==
    /\ op = "idle"
    /\ \E g \in CurriedFunctions :
        /\ aliased' = FALSE
        /\ call' = <<"task", "liftA2Task", <<g>>, NewRun(pending)>>

Running(which) ==
    /\ op = "task"
    /\ res.started[which] > 0
    /\ res[which].st = "pending"

Becomes(T) ==
    /\ aliased' = aliased
    /\ call' = <<op, inst, args, T>>

(* fab's promise resolves with a function (under ap). *)
ResolveFab ==
    /\ Running("fab")
    /\ res.fb.st = "absent"
    /\ \E f \in TaskFunctions : Becomes(settle(res, "fab", resolved(f)))

RejectFab ==
    /\ Running("fab")
    /\ res.fb.st = "absent"
    /\ \E e \in TaskErrors : Becomes(settle(res, "fab", rejected(e)))

(* fa's promise (fc's under liftA2) settles. *)
ResolveFa ==
    /\ Running("fa")
    /\ \E a \in TaskValues : Becomes(settle(res, "fa", resolved(a)))

RejectFa ==
    /\ Running("fa")
    /\ \E e \in TaskErrors : Becomes(settle(res, "fa", rejected(e)))

(* fb's promise settles (under liftA2). *)
ResolveFb ==
    /\ Running("fab")
    /\ res.fb.st = "pending"
    /\ \E b \in TaskValues : Becomes([res EXCEPT !.fb = resolved(b)])

RejectFb ==
    /\ Running("fab")
    /\ res.fb.st = "pending"
    /\ \E e \in TaskErrors : Becomes([res EXCEPT !.fb = rejected(e)])

(* fb().then(g): g is applied to the value of fb and fab's promise         *)
(* resolves with g(b); a rejection of fb is passed on.                     *)
MapThen ==
    /\ Running("fab")
    /\ res.fb.st \in {"resolved", "rejected"}
    /\ IF res.fb.st = "resolved"
       THEN Becomes(settle([res EXCEPT !.applied = Append(@, <<args[1], res.fb.value>>)],
                           "fab", resolved(apply(args[1], res.fb.value))))
       ELSE Becomes(settle(res, "fab", rejected(res.fb.reason)))

(* .then(([f, a]) => f(a)): once Promise.all has resolved f is applied to  *)
(* a and the task's promise resolves with f(a); a rejection is passed on   *)
(* and f is not applied.                                                   *)
Then ==
    /\ op = "task"
    /\ res.out.st = "pending"
    /\ res.all.st \in {"resolved", "rejected"}
    /\ IF res.all.st = "resolved"
       THEN Becomes([res EXCEPT
                !.applied = Append(@, <<res.all.value[1], res.all.value[2]>>),
                !.out = resolved(apply(res.all.value[1], res.all.value[2]))])
       ELSE Becomes([res EXCEPT !.out = rejected(res.all.reason)])

NextTask ==
    \/ RunAp \/ RunLiftA2
    \/ ResolveFab \/ RejectFab \/ ResolveFa \/ RejectFa
    \/ ResolveFb \/ RejectFb \/ MapThen
    \/ Then
    \/ Return
SpecTask == Init /\ [][NextTask]_vars

---------------------------------------------------------------------------
(* Claims on the task applicative, checked under SpecTask. *)

(* The positions in the order of settling at which a promise was rejected, *)
(* and the reason of the first of them.                                    *)
Failures == {i \in 1..Len(res.order) : res.order[i][2] = "rejected"}
FirstFailure ==
    LET i == CHOOSE k \in Failures : \A j \in Failures : k <= j
    IN  res[res.order[i][1]].reason

(* C18: running the task of ap starts fab() and fa() both, before either   *)
(* has settled; the task resolves only after both have resolved, and to    *)
(* f(a), f and a being the values of fab and fa, whichever resolved first. *)
C18_TaskApWaitsForBoth ==
    op = "task" =>
        /\ res.started.fab = 1 /\ res.started.fa = 1
        /\ res.all.st = "resolved" =>
            /\ res.fab.st = "resolved" /\ res.fa.st = "resolved"
            /\ res.all.value = <<res.fab.value, res.fa.value>>
        /\ res.out.st = "resolved" =>
            /\ res.fab.st = "resolved" /\ res.fa.st = "resolved"
            /\ res.out.value = apply(res.fab.value, res.fa.value)
            /\ res.applied[Len(res.applied)] = <<res.fab.value, res.fa.value>>
        /\ (res.fab.st = "resolved" /\ res.fa.st = "resolved") =>
               res.all.st = "resolved"

(* fa resolves before fab, and the task resolves to f(a). *)
C18_Witness ==
    /\ op = "task"
    /\ inst = "applicativeTask"
    /\ res.order = << <<"fa", "resolved">>, <<"fab", "resolved">> >>
    /\ res.fab.value = [fn |-> "minus", b |-> 1]
    /\ res.fa.value = 0
    /\ res.out = resolved(1)

(* C19: when fab or fa fails the task fails, with the reason of the first  *)
(* of the two to fail; the function fab wraps is never applied; every      *)
(* rejected promise has a reaction attached, so the failure reaches the    *)
(* caller as the rejection of the task's promise; fab and fa are started   *)
(* once.                                                                   *)
C19_FirstFailurePropagates ==
    (op = "task" /\ Failures # {}) =>
        /\ res.all = rejected(FirstFailure)
        /\ res.out \in {pending, rejected(FirstFailure)}
        /\ \A i \in 1..Len(res.applied) : res.applied[i][1] \in CurriedFunctions
        /\ inst = "applicativeTask" => res.applied = <<>>
        /\ \A p \in {"fab", "fa", "all"} :
               res[p].st = "rejected" => p \in res.handlers
        /\ res.started.fab <= 1 /\ res.started.fa <= 1

(* fa fails with E1, then fab fails with E2: the task is rejected with E1. *)
C19_Witness ==
    /\ op = "task"
    /\ inst = "applicativeTask"
    /\ res.order = << <<"fa", "rejected">>, <<"fab", "rejected">> >>
    /\ res.fa = rejected("E1")
    /\ res.fab = rejected("E2")
    /\ res.out = rejected("E1")
    /\ res.applied = <<>>

---------------------------------------------------------------------------
(* A property run: fc.assert(fc.property(arb, ..., predicate)) of the two  *)
(* tests.  fc.property builds the property (Ready); fc.assert runs it      *)
(* (Running): it draws a tuple per iteration from the arbitraries, seeded  *)
(* by the seed of the run, and evaluates the predicate; at the first tuple *)
(* on which the predicate is false it stops drawing, shrinks the tuple,    *)
(* and throws the report (Failed); after NumRuns true iterations it        *)
(* returns (Passed).  The run is the record res of the call.               *)

(* The iterations of a run (fast-check's numRuns, 100 by default) and the  *)
(* seeds a run can be given.                                               *)
NumRuns == 3
MaxSeed == 255
Seeds == 0..MaxSeed

(* The strings arb draws, in the order their index is drawn. *)
RunStrings == << <<>>, <<97>>, <<98>>, <<97, 98>> >>

(* The properties: associativity of the semigroup test, rightIdentity and  *)
(* leftIdentity of the monoid test, and, for a predicate that can be       *)
(* false, the commutativity of the same S.concat.                          *)
Properties == {"associativity", "rightIdentity", "leftIdentity", "commutativity"}

arity(P) ==
    CASE P = "associativity" -> 3
      [] P \in {"rightIdentity", "leftIdentity"} -> 1
      [] P = "commutativity" -> 2

predicate(P, t) ==
    CASE P = "associativity" -> associativity(t[1], t[2], t[3])
      [] P = "rightIdentity" -> rightIdentity(t[1])
      [] P = "leftIdentity" -> leftIdentity(t[1])
      [] P = "commutativity" ->
             strictEqual(specSemigroupS_concat(t[1], t[2]), specSemigroupS_concat(t[2], t[1]))

(* The tuple of iteration i (from 0) of a run with the given seed: the     *)
(* digits of the seed, in base Len(RunStrings), are the indexes drawn.     *)
draw(P, seed, i) ==
    [j \in 1..arity(P) |->
        RunStrings[((seed \div (Len(RunStrings) ^ (i * arity(P) + j - 1)))
                        % Len(RunStrings)) + 1]]

(* The smaller candidates of a string, in the order they are tried: the    *)
(* empty string, then the string without its first or its last unit.       *)
shrinkString(str) ==
    IF str = <<>> THEN <<>>
    ELSE IF Len(str) = 1 THEN << <<>> >>
    ELSE << <<>>, Tail(str), SubSeq(str, 1, Len(str) - 1) >>

(* The candidates of a tuple: each position shrunk on its own, the first   *)
(* position first.                                                         *)
RECURSIVE shrinkFrom(_, _)
shrinkFrom(t, j) ==
    IF j > Len(t) THEN <<>>
    ELSE [k \in 1..Len(shrinkString(t[j])) |-> [t EXCEPT ![j] = shrinkString(t[j])[k]]]
            \o shrinkFrom(t, j + 1)

shrink(t) == shrinkFrom(t, 1)

(* The positions of the candidates of t on which the predicate is false. *)
Falsifying(P, t) == {k \in 1..Len(shrink(t)) : ~predicate(P, shrink(t)[k])}

NewProperty ==
    [status |-> "Ready", seed |-> 0, drawn |-> <<>>, evals |-> <<>>,
     failing |-> <<>>, counterexample |-> <<>>, shrinkSteps |-> 0,
     reports |-> <<>>, assert |-> "not called", error |-> <<>>]

(* A report that names a seed other than the one of the run. *)
failure_otherSeed(run) ==
    [counterexample |-> run.counterexample[1],
     seed |-> (run.seed + 1) % (MaxSeed + 1),
     numShrinks |-> run.shrinkSteps]

(* What the error of a failed fc.assert tells: the counterexample, the     *)
(* seed and how many times the counterexample was shrunk.                  *)
failure(run) ==
    [counterexample |-> run.counterexample[1],
     seed |-> run.seed,
     numShrinks |-> run.shrinkSteps]

(* fc.property(arb, ..., predicate) *)
Property ==
    /\ op = "idle"
    /\ \E P \in Properties :
        /\ aliased' = FALSE
        /\ call' = <<"run", P, <<>>, NewProperty>>

(* fc.assert(property) is called: the run takes its seed. *)
RunAssert ==
    /\ op = "run"
    /\ res.status = "Ready"
    /\ \E seed \in Seeds :
        Becomes([res EXCEPT !.status = "Running", !.seed = seed, !.assert = "called"])

(* An iteration that draws although an earlier one has failed. *)
Iterate_afterFailure ==
    /\ op = "run"
    /\ res.status = "Running"
    /\ Len(res.evals) < NumRuns
    /\ \E t \in {draw(inst, res.seed, Len(res.evals))} :
        Becomes([res EXCEPT
            !.drawn = Append(@, t),
            !.evals = Append(@, predicate(inst, t)),
            !.failing = IF predicate(inst, t) THEN @ ELSE <<t>>,
            !.counterexample = IF predicate(inst, t) THEN @ ELSE <<t>>])

(* One iteration: a tuple is drawn and the predicate evaluated on it. *)
Iterate ==
    /\ op = "run"
    /\ res.status = "Running"
    /\ res.failing = <<>>
    /\ Len(res.evals) < NumRuns
    /\ \E t \in {draw(inst, res.seed, Len(res.evals))} :
        Becomes([res EXCEPT
            !.drawn = Append(@, t),
            !.evals = Append(@, predicate(inst, t)),
            !.failing = IF predicate(inst, t) THEN @ ELSE <<t>>,
            !.counterexample = IF predicate(inst, t) THEN @ ELSE <<t>>])

(* A step of the shrink loop: the first candidate of the counterexample on *)
(* which the predicate is still false replaces it.                         *)
Shrink ==
    /\ op = "run"
    /\ res.status = "Running"
    /\ res.failing # <<>>
    /\ Falsifying(inst, res.counterexample[1]) # {}
    /\ \E k \in Falsifying(inst, res.counterexample[1]) :
        /\ \A j \in Falsifying(inst, res.counterexample[1]) : k <= j
        /\ Becomes([res EXCEPT
               !.counterexample = <<shrink(res.counterexample[1])[k]>>,
               !.shrinkSteps = @ + 1])

(* A report that fc.assert would return instead of throwing. *)
ReportFailed_returned ==
    /\ op = "run"
    /\ res.status = "Running"
    /\ res.failing # <<>>
    /\ Falsifying(inst, res.counterexample[1]) = {}
    /\ Becomes([res EXCEPT !.status = "Failed", !.reports = Append(@, "Failed"),
                           !.assert = "returned", !.error = <<failure(res)>>])

(* No candidate falsifies the predicate any more: fc.assert throws the     *)
(* report of the failure.                                                  *)
ReportFailed ==
    /\ op = "run"
    /\ res.status = "Running"
    /\ res.failing # <<>>
    /\ Falsifying(inst, res.counterexample[1]) = {}
    /\ Becomes([res EXCEPT !.status = "Failed", !.reports = Append(@, "Failed"),
                           !.assert = "threw", !.error = <<failure(res)>>])

(* Every iteration was true: fc.assert returns. *)
ReportPassed ==
    /\ op = "run"
    /\ res.status = "Running"
    /\ res.failing = <<>>
    /\ Len(res.evals) = NumRuns
    /\ Becomes([res EXCEPT !.status = "Passed", !.reports = Append(@, "Passed"),
                           !.assert = "returned"])

NextRun == Property \/ RunAssert \/ Iterate \/ Shrink \/ ReportFailed \/ ReportPassed
SpecRun == Init /\ [][NextRun]_vars

(* The iterations evaluated so far that were false. *)
FalseIterations == {i \in 1..Len(res.evals) : ~res.evals[i]}

(* The states of a run and the moves between them. *)
RunStates ==
    op = "run" =>
        /\ res.status \in {"Ready", "Running", "Passed", "Failed"}
        /\ Len(res.drawn) = Len(res.evals)
        /\ res.status = "Ready" => (res.evals = <<>> /\ res.reports = <<>>)
        /\ res.status = "Running" => res.reports = <<>>
        /\ res.status = "Failed" =>
            /\ FalseIterations = {Len(res.evals)}
            /\ res.failing = <<res.drawn[Len(res.drawn)]>>
            /\ ~predicate(inst, res.counterexample[1])
            /\ Falsifying(inst, res.counterexample[1]) = {}
            /\ res.reports = <<"Failed">>
        /\ res.status = "Passed" =>
            /\ Len(res.evals) = NumRuns
            /\ FalseIterations = {}
            /\ res.reports = <<"Passed">>
        /\ FalseIterations # {} => res.status \in {"Running", "Failed"}
        /\ FalseIterations \subseteq {Len(res.evals)}

RunMoves ==
    /\ (op = "idle" /\ op' = "run") => res'.status = "Ready"
    /\ (op = "run" /\ op' = "run") =>
        /\ <<res.status, res'.status>> \in
               {<<"Ready", "Running">>, <<"Running", "Running">>,
                <<"Running", "Passed">>, <<"Running", "Failed">>}
        /\ res.failing # <<>> => res'.drawn = res.drawn
        /\ res'.status = "Failed" => res.failing # <<>>
        /\ res'.status = "Passed" => (res.failing = <<>> /\ Len(res.evals) = NumRuns)

(* C20: a run is Ready, then Running, then Passed or Failed, and a         *)
(* terminal state is not left; it is Failed after the first iteration on   *)
(* which the predicate is false, no iteration is drawn after that one, and *)
(* the shrink loop has run to its end before the report; it is Passed      *)
(* exactly when the NumRuns iterations were all true; one run reports      *)
(* Passed or Failed, never both.                                           *)
C20_RunStateMachine == [](RunStates) /\ [][RunMoves]_vars

(* commutativity on ('a', 'a'), then on ('ab', 'a'): false, shrunk to      *)
(* ('', 'a') in one step, reported.                                        *)
C20_Witness ==
    /\ op = "run"
    /\ inst = "commutativity"
    /\ res.status = "Failed"
    /\ res.evals = <<TRUE, FALSE>>
    /\ res.failing = << <<<<97, 98>>, <<97>>>> >>
    /\ res.counterexample = << <<<<>>, <<97>>>> >>
    /\ res.shrinkSteps = 1

---------------------------------------------------------------------------
(* A second run of the same property with the seed of a finished one: the  *)
(* seed the error of a failed run tells, or the seed a passed run was      *)
(* given.  The finished run is kept in args.                               *)

replayed(run) == IF run.status = "Failed" THEN run.error[1].seed ELSE run.seed

Rerun ==
    /\ op = "run"
    /\ args = <<>>
    /\ res.status \in {"Passed", "Failed"}
    /\ aliased' = aliased
    /\ call' = <<"run", inst, <<res>>,
                 [NewProperty EXCEPT !.status = "Running", !.seed = replayed(res),
                                     !.assert = "called"]>>

NextRerun == Property \/ RunAssert \/ Iterate \/ Shrink \/ ReportFailed \/ ReportPassed \/ Rerun
SpecRerun == Init /\ [][NextRerun]_vars

IsRerun == op = "run" /\ args # <<>>

---------------------------------------------------------------------------
(* The shrink loop under a budget of steps, as the engine of the           *)
(* specification has it (4.3: "until no smaller candidate falsifies it or  *)
(* a shrink-step budget is exhausted"); fc.assert is called without one.   *)

ShrinkBudget == 1

ShrinkWithinBudget ==
    /\ op = "run"
    /\ res.shrinkSteps < ShrinkBudget
    /\ Shrink

(* A report made while a candidate still falsifies the predicate and the  *)
(* budget is not spent.                                                    *)
ReportExhausted_early ==
    /\ op = "run"
    /\ res.status = "Running"
    /\ res.failing # <<>>
    /\ Falsifying(inst, res.counterexample[1]) # {}
    /\ Becomes([res EXCEPT !.status = "Failed", !.reports = Append(@, "Failed"),
                           !.assert = "threw", !.error = <<failure(res)>>])

(* The budget is spent while a candidate still falsifies the predicate:    *)
(* the counterexample reached so far is reported.                          *)
ReportExhausted ==
    /\ op = "run"
    /\ res.status = "Running"
    /\ res.failing # <<>>
    /\ Falsifying(inst, res.counterexample[1]) # {}
    /\ res.shrinkSteps >= ShrinkBudget
    /\ Becomes([res EXCEPT !.status = "Failed", !.reports = Append(@, "Failed"),
                           !.assert = "threw", !.error = <<failure(res)>>])

NextShrink ==
    Property \/ RunAssert \/ Iterate \/ ShrinkWithinBudget \/ ReportFailed
        \/ ReportExhausted \/ ReportPassed
SpecShrink == Init /\ [][NextShrink]_vars

Reported == op = "run" /\ res.status = "Failed"

---------------------------------------------------------------------------
(* What fc.assert does on a falsified property, checked under SpecRun. *)

(* C23 as stated: a failed check returns to the caller and does not throw. *)
C23_FailedIsReturned ==
    (op = "run" /\ res.status = "Failed") => res.assert = "returned"

(* C23: fc.assert on a property whose predicate is false on a drawn tuple  *)
(* throws, and the error thrown tells the counterexample, the seed and the *)
(* number of shrink steps; on a property that held in every iteration it   *)
(* returns and there is no error.                                          *)
C23_FailedIsThrown ==
    op = "run" =>
        /\ res.status = "Failed" =>
            /\ res.assert = "threw"
            /\ res.error = <<[counterexample |-> res.counterexample[1],
                              seed |-> res.seed,
                              numShrinks |-> res.shrinkSteps]>>
        /\ res.status = "Passed" => (res.assert = "returned" /\ res.error = <<>>)
        /\ res.status \in {"Ready", "Running"} =>
               (res.assert \in {"not called", "called"} /\ res.error = <<>>)

(* commutativity, false on the first tuple drawn: thrown after one shrink. *)
C23_Witness ==
    /\ op = "run"
    /\ inst = "commutativity"
    /\ res.status = "Failed"
    /\ res.assert = "threw"
    /\ res.evals = <<FALSE>>
    /\ res.error[1].numShrinks = 1

---------------------------------------------------------------------------
(* The functor laws of the map functions: map(fa, identity),               *)
(* map(fa, a => g(f(a))) and map(map(fa, f), g) of one call.               *)

identity == [fn |-> "identity"]
compose(g, f) == [fn |-> "compose", g |-> g, f |-> f]

Functors == {"functorResponse", "liftArr", "liftOpt", "applicativeArray", "applicativeOption"}

(* (a) => a * 2 of the call of functorResponse.map, and the identity. *)
NumberFunctions == {identity, [fn |-> "double"]}

(* fa with strings in it takes f from strings to numbers, fa with numbers  *)
(* in it takes f from numbers to numbers; g is on numbers.                 *)
FunctorValues == {"strings", "numbers"}
Contents(A) == IF A = "strings" THEN SampleStrings \cup {<<>>} ELSE LiftNumbers
FirstFunctions(A) == IF A = "strings" THEN UnaryFunctions ELSE NumberFunctions

Responses(A) ==
    [url : {"Response", "/users"}, status : {200, 404},
     headers : {[Authorization |-> "Bearer"]}, body : A]

FunctorCarrier(F, A) ==
    CASE F = "functorResponse" -> Responses(A)
      [] F \in {"liftArr", "applicativeArray"} -> SeqsUpTo(A, MaxArr)
      [] F \in {"liftOpt", "applicativeOption"} -> Option(A)

FunctorLaws ==
    /\ op = "idle"
    /\ \E F \in Functors, A \in FunctorValues :
        \E fa \in FunctorCarrier(F, Contents(A)) :
            \E f \in FirstFunctions(A), g \in NumberFunctions :
                /\ aliased' = FALSE
                /\ call' = <<"functorLaws", F, <<fa, f, g>>,
                            [identity |-> map(F, fa, identity),
                             mapped |-> map(F, fa, f),
                             composed |-> map(F, fa, compose(g, f)),
                             chained |-> map(F, map(F, fa, f), g)]>>

NextFunctor == FunctorLaws \/ Return
SpecFunctor == Init /\ [][NextFunctor]_vars

(* C25: for the map of functorResponse, liftArr, liftOpt, applicativeArray *)
(* and applicativeOption, map(fa, identity) = fa and map(fa, a => g(f(a))) *)
(* = map(map(fa, f), g); the map of a Response has the url, status and     *)
(* headers of fa and f(fa.body) as body.                                   *)
C25_FunctorLaws ==
    op = "functorLaws" =>
        /\ res.identity = args[1]
        /\ res.composed = res.chained
        /\ inst = "functorResponse" =>
            /\ res.mapped.url = args[1].url
            /\ res.mapped.status = args[1].status
            /\ res.mapped.headers = args[1].headers
            /\ res.mapped.body = apply(args[2], args[1].body)

(* A 404 Response with body 'a', f the length, g the doubling: body 2. *)
C25_Witness ==
    /\ op = "functorLaws"
    /\ inst = "functorResponse"
    /\ args[1].status = 404
    /\ args[1].body = <<97>>
    /\ args[2] = [fn |-> "length"]
    /\ args[3] = [fn |-> "double"]
    /\ res.composed.body = 2
    /\ res.mapped.body = 1

---------------------------------------------------------------------------
(* Calls on shared values.  The values created at startup are kept in a    *)
(* heap: the arrays xs and ys, the empty of the array monoid, two points,  *)
(* two users, a Response and an array of numbers.  A call takes its        *)
(* arguments from the heap by name, is made twice, and the heap is what    *)
(* the two calls leave of it.                                              *)

(* x after x.concat(y), with a concat that pushes y onto x. *)
getArraySemigroup_receiverPushed(x, y) == x \o y

(* x after x.concat(y) of getArraySemigroup: concat builds a new array. *)
getArraySemigroup_receiver(x, y) == x

PureCalls ==
    {[opn |-> "concat", I |-> "getArraySemigroup", a |-> <<"xs", "ys">>],
     [opn |-> "concat", I |-> "getArraySemigroup", a |-> <<"xs", "xs">>],
     [opn |-> "concat", I |-> "getMonoidArray", a |-> <<"empty", "xs">>],
     [opn |-> "concat", I |-> "semigroupPoint", a |-> <<"p", "q">>],
     [opn |-> "equals", I |-> "eqPoint", a |-> <<"p", "q">>],
     [opn |-> "compare", I |-> <<"byAge">>, a |-> <<"u", "v">>],
     [opn |-> "min", I |-> <<"byAge">>, a |-> <<"u", "v">>],
     [opn |-> "max", I |-> <<"byAge">>, a |-> <<"u", "v">>],
     [opn |-> "fold", I |-> "monoidSum", a |-> <<"ns">>],
     [opn |-> "map", I |-> "functorResponse", a |-> <<"fa">>],
     [opn |-> "map", I |-> "applicativeArray", a |-> <<"ns">>],
     [opn |-> "ap", I |-> "applicativeArray", a |-> <<"ns">>],
     [opn |-> "liftA2", I |-> "applicativeArray", a |-> <<"ns", "ns">>]}

(* What the call returns on the heap h. *)
returned(c, h) ==
    CASE c.opn = "concat" -> concat(c.I, h[c.a[1]], h[c.a[2]])
      [] c.opn = "equals" -> equals(c.I, h[c.a[1]], h[c.a[2]])
      [] c.opn = "compare" -> compare(c.I, h[c.a[1]], h[c.a[2]])
      [] c.opn = "min" -> min(c.I, h[c.a[1]], h[c.a[2]])
      [] c.opn = "max" -> max(c.I, h[c.a[1]], h[c.a[2]])
      [] c.opn = "fold" -> foldMonoid(c.I, h[c.a[1]])
      [] c.opn = "map" -> map(c.I, h[c.a[1]], [fn |-> "double"])
      [] c.opn = "ap" -> ap(c.I, <<[fn |-> "double"], [fn |-> "identity"]>>, h[c.a[1]])
      [] c.opn = "liftA2" -> liftA2(c.I, [fn |-> "minus"], h[c.a[1]], h[c.a[2]])

(* The heap after the call: the operations read their arguments and build  *)
(* their result; x.concat(y) is the one call of a method on an argument.   *)
after(c, h) ==
    IF c.opn = "concat" /\ c.I \in {"getArraySemigroup", "getMonoidArray"}
    THEN [h EXCEPT ![c.a[1]] = getArraySemigroup_receiver(h[c.a[1]], h[c.a[2]])]
    ELSE h

Share ==
    /\ op = "idle"
    /\ \E xs, ys \in Arrays, b \in LiftNumbers, n \in Ints :
        \E h \in {[xs |-> xs, ys |-> ys, empty |-> getMonoidArray_empty,
                   p |-> [x |-> 1, y |-> n], q |-> [x |-> 1, y |-> 3],
                   u |-> [name |-> "Dimebag", age |-> 31],
                   v |-> [name |-> "Mercury", age |-> 34],
                   fa |-> [url |-> "Response", status |-> 200,
                           headers |-> [Authorization |-> "Bearer"], body |-> b],
                   ns |-> <<b, n>>]} :
            /\ aliased' = FALSE
            /\ call' = <<"pure", "none", <<>>,
                        [heap |-> h, shared |-> h, value |-> <<>>, again |-> <<>>]>>

Call ==
    /\ op = "pure"
    /\ \E c \in PureCalls :
        /\ aliased' = FALSE
        /\ call' = <<"pure", c.I, <<c.opn, c.a>>,
                    [heap |-> after(c, after(c, res.heap)),
                     shared |-> res.shared,
                     value |-> returned(c, res.heap),
                     again |-> returned(c, after(c, res.heap))]>>

NextPure == Share \/ Call
SpecPure == Init /\ [][NextPure]_vars

---------------------------------------------------------------------------
(* getApplySemigroup(S).concat(x, y) for S and Sprod of 03-semigroup.ts,   *)
(* and getApplyMonoid(M).concat(x, y), .empty and concat(x, empty).        *)

AppliedSemigroups == {"semigroupSum", "semigroupProduct"}
AppliedMonoids == {"monoidSum", "monoidProduct"}

ApplyConcat ==
    /\ op = "idle"
    /\ \E S \in AppliedSemigroups \cup AppliedMonoids :
        \E x, y \in Option(Ints) :
            /\ aliased' = FALSE
            /\ call' = <<"applyConcat", S, <<x, y>>,
                        IF S \in AppliedMonoids
                        THEN [value |-> getApplySemigroup(S, x, y),
                              empty |-> getApplyMonoid_empty(S),
                              withEmpty |-> getApplySemigroup(S, x, getApplyMonoid_empty(S))]
                        ELSE [value |-> getApplySemigroup(S, x, y)]>>

NextApply == ApplyConcat \/ Return
SpecApply == Init /\ [][NextApply]_vars

(* a + b under the sums, a * b under the products. *)
Merged(S, a, b) == IF S \in {"semigroupSum", "monoidSum"} THEN a + b ELSE a * b

(* C26: concat(x, y) of getApplySemigroup(S) and getApplyMonoid(M) is none *)
(* when x or y is none and some(S.concat(a, b)) for some(a) and some(b);   *)
(* the empty of the lifted monoid is some(M.empty), and                    *)
(* concat(some(a), empty) = some(a).                                       *)
C26_ApplyLifting ==
    op = "applyConcat" =>
        /\ (isNone(args[1]) \/ isNone(args[2])) => res.value = none
        /\ (isSome(args[1]) /\ isSome(args[2])) =>
               res.value = some(Merged(inst, args[1].value, args[2].value))
        /\ inst \in AppliedMonoids =>
            /\ res.empty = some(IF inst = "monoidSum" THEN 0 ELSE 1)
            /\ isSome(args[1]) => res.withEmpty = args[1]

(* Sprod.concat(some(1), some(2)) = some(2), and M.concat(some(1), none) *)
C26_Witness ==
    /\ op = "applyConcat"
    /\ \/ /\ inst = "semigroupProduct"
          /\ args = <<some(1), some(2)>>
          /\ res.value = some(2)
       \/ /\ inst = "monoidSum"
          /\ args = <<some(1), none>>
          /\ res.value = none
          /\ res.withEmpty = some(1)

---------------------------------------------------------------------------
(* semigroupCustomer.concat(c1, c2) and foldCustomer(c1, [c2, c3]), on the *)
(* customers of the carrier and on customer1, customer2 and customer3.     *)
(* The dates of the three are counted in days from 2018-02-20, the         *)
(* registration of customer1: getTime() is increasing in the date.         *)

customer1 ==
    [name |-> <<76, 101, 97, 110>>, favouriteThings |-> <<<<102, 111, 111, 100>>, <<99, 111, 100, 101>>>>,
     registeredAt |-> 0, lastUpdatedAt |-> 26, hasMadePurchase |-> FALSE]

customer2 ==
    [name |-> <<76, 101, 97, 110, 100, 114, 111>>, favouriteThings |-> <<<<108, 105, 110, 117, 120>>>>,
     registeredAt |-> 2, lastUpdatedAt |-> 17, hasMadePurchase |-> TRUE]

customer3 ==
    [name |-> <<76, 101, 97, 110, 100, 114, 111, 32, 73>>, favouriteThings |-> <<<<99, 104, 111, 99, 111, 108, 97, 116, 101>>>>,
     registeredAt |-> 367, lastUpdatedAt |-> 382, hasMadePurchase |-> TRUE]

SampleCustomers == {customer1, customer2, customer3}

foldCustomer(a, xs) == foldSemigroup("semigroupCustomer", a, xs)

CustomerConcat ==
    /\ op = "idle"
    /\ \E c1, c2 \in Customers \cup SampleCustomers :
        /\ aliased' = FALSE
        /\ call' = <<"customerConcat", "semigroupCustomer", <<c1, c2>>,
                    concat("semigroupCustomer", c1, c2)>>

FoldCustomer ==
    /\ op = "idle"
    /\ \E c1, c2, c3 \in FoldCustomers \cup SampleCustomers :
        /\ aliased' = FALSE
        /\ call' = <<"foldCustomer", "semigroupCustomer", <<c1, <<c2, c3>>>>,
                    foldCustomer(c1, <<c2, c3>>)>>

NextCustomer == CustomerConcat \/ FoldCustomer \/ Return
SpecCustomer == Init /\ [][NextCustomer]_vars

(* The merge of two customers, field by field, as the comments of          *)
(* semigroupCustomer say it.                                               *)
Merge(c1, c2) ==
    [name |-> IF Len(c2.name) > Len(c1.name) THEN c2.name ELSE c1.name,
     favouriteThings |-> c1.favouriteThings \o c2.favouriteThings,
     registeredAt |-> IF c2.registeredAt < c1.registeredAt
                      THEN c2.registeredAt ELSE c1.registeredAt,
     lastUpdatedAt |-> IF c2.lastUpdatedAt > c1.lastUpdatedAt
                       THEN c2.lastUpdatedAt ELSE c1.lastUpdatedAt,
     hasMadePurchase |-> (c1.hasMadePurchase \/ c2.hasMadePurchase)]

(* C27: semigroupCustomer.concat(c1, c2) has the longer name (c1's on a    *)
(* tie), c1's favourite things followed by c2's, the smaller registeredAt, *)
(* the larger lastUpdatedAt and the disjunction of hasMadePurchase;        *)
(* foldCustomer(c1, [c2, c3]) = concat(concat(c1, c2), c3), and for        *)
(* customer1, customer2, customer3 it is 'Leandro I', the four things in   *)
(* order, customer1's registration, customer3's update and true.           *)
C27_CustomerMerge ==
    /\ op = "customerConcat" => res = Merge(args[1], args[2])
    /\ op = "foldCustomer" =>
        /\ res = concat("semigroupCustomer",
                        concat("semigroupCustomer", args[1], args[2][1]), args[2][2])
        /\ res = Merge(Merge(args[1], args[2][1]), args[2][2])
        /\ args = <<customer1, <<customer2, customer3>>>> =>
               res = [name |-> <<76, 101, 97, 110, 100, 114, 111, 32, 73>>,
                      favouriteThings |-> <<<<102, 111, 111, 100>>, <<99, 111, 100, 101>>, <<108, 105, 110, 117, 120>>, <<99, 104, 111, 99, 111, 108, 97, 116, 101>>>>,
                      registeredAt |-> customer1.registeredAt,
                      lastUpdatedAt |-> customer3.lastUpdatedAt,
                      hasMadePurchase |-> TRUE]

(* foldCustomer(customer1, [customer2, customer3]) *)
C27_Witness ==
    /\ op = "foldCustomer"
    /\ args = <<customer1, <<customer2, customer3>>>>
    /\ res.name = <<76, 101, 97, 110, 100, 114, 111, 32, 73>>
    /\ Len(res.favouriteThings) = 4

---------------------------------------------------------------------------
(* The semigroup of functions: getFunctionSemigroup(S)<A>() of             *)
(* fp-ts/lib/Semigroup, whose concat(f, g) is (a) => S.concat(f(a), g(a)), *)
(* and semigroupPredicate = getFunctionSemigroup(semigroupAll)<Point>().   *)

(* A concat of functions that is its first function. *)
getFunctionSemigroup_first(S, f, g) == f

getFunctionSemigroup(S, f, g) == [fn |-> "pointwise", S |-> S, f |-> f, g |-> g]

semigroupPredicate_concat(f, g) == getFunctionSemigroup("semigroupAll", f, g)

isPositiveX == [fn |-> "isPositiveX"]
isPositiveY == [fn |-> "isPositiveY"]
isPositiveXY == semigroupPredicate_concat(isPositiveX, isPositiveY)

PointPredicates == {isPositiveX, isPositiveY, isPositiveXY}

(* semigroupPredicate.concat(f, g)(p) *)
PredicateConcat ==
    /\ op = "idle"
    /\ \E f, g \in PointPredicates :
        \E p \in Points :
            /\ aliased' = FALSE
            /\ call' = <<"predicateConcat", "semigroupPredicate", <<f, g, p>>,
                        apply(semigroupPredicate_concat(f, g), p)>>

NextPredicate == PredicateConcat \/ Return
SpecPredicate == Init /\ [][NextPredicate]_vars

(* C28: semigroupPredicate.concat(f, g)(p) = f(p) && g(p) for every point  *)
(* p with bounded integer fields, and concat(isPositiveX, isPositiveY)(p)  *)
(* is true exactly when p.x >= 0 and p.y >= 0.                             *)
C28_PredicatesPointwise ==
    op = "predicateConcat" =>
        /\ res = (apply(args[1], args[3]) /\ apply(args[2], args[3]))
        /\ (args[1] = isPositiveX /\ args[2] = isPositiveY) =>
               (res <=> (args[3].x >= 0 /\ args[3].y >= 0))
        /\ (args[1] = isPositiveXY \/ args[2] = isPositiveXY) =>
               (res => (args[3].x >= 0 /\ args[3].y >= 0))

(* isPositiveXY({ x: 1, y: -1 }) is false, isPositiveX of it true. *)
C28_Witness ==
    /\ op = "predicateConcat"
    /\ args = <<isPositiveX, isPositiveY, [x |-> 1, y |-> -1]>>
    /\ res = FALSE

---------------------------------------------------------------------------
(* Tasks built and then invoked.  applicativeTask.of(a), map(fa, f),       *)
(* ap(fab, fa) and liftT(g)(fb) each return a function () => ...; nothing  *)
(* of the body runs before the function is called.  The record res keeps   *)
(* how many times the built task was invoked, how many times the tasks     *)
(* under it were started, and for each invocation the promises of the      *)
(* tasks under it, the promise returned and the applications made.         *)

MaxInvocations == 2

TaskBuilders == {"of", "map", "ap", "liftT"}

(* A builder that calls fab() and fa() when the task is built. *)
startedByBuild_eager(kind) == [fab |-> IF kind = "ap" THEN 1 ELSE 0,
                               fa |-> IF kind = "of" THEN 0 ELSE 1]

(* The tasks started by of, map, ap and liftT themselves: none, the calls  *)
(* fa(), fab() and fb() are in the body of the function returned.          *)
startedByBuild(kind) == [fab |-> 0, fa |-> 0]

(* The tasks started by one invocation: Promise.resolve(a) starts none,    *)
(* fa().then(f) and fb().then(g) start fa, Promise.all([fab(), fa()])      *)
(* starts fab and fa.                                                      *)
startedByInvocation(kind) ==
    [fab |-> IF kind = "ap" THEN 1 ELSE 0, fa |-> IF kind = "of" THEN 0 ELSE 1]

(* The promises of one invocation. *)
invocation(kind, a) ==
    [fab |-> IF kind = "ap" THEN pending ELSE absent,
     fa |-> IF kind = "of" THEN absent ELSE pending,
     out |-> IF kind = "of" THEN resolved(a) ELSE pending,
     applied |-> <<>>]

(* of(a), map(fa, f), ap(fab, fa) or liftT(g)(fb) is called. *)
Build ==
    /\ op = "idle"
    /\ \E kind \in TaskBuilders :
        \E f \in (IF kind = "of" THEN TaskValues
                  ELSE IF kind = "ap" THEN {"none"} ELSE NumberFunctions) :
            /\ aliased' = FALSE
            /\ call' = <<"lazy", kind, <<f>>,
                        [invocations |-> 0, started |-> startedByBuild(kind),
                         runs |-> <<>>]>>

(* The task built is called. *)
Invoke ==
    /\ op = "lazy"
    /\ res.invocations < MaxInvocations
    /\ Becomes([res EXCEPT
           !.invocations = @ + 1,
           !.started = [fab |-> @.fab + startedByInvocation(inst).fab,
                        fa |-> @.fa + startedByInvocation(inst).fa],
           !.runs = Append(@, invocation(inst, args[1]))])

(* The promise of fa (fb under liftT) of an invocation resolves. *)
ResolveTask ==
    /\ op = "lazy"
    /\ \E i \in 1..Len(res.runs) :
        /\ res.runs[i].fa.st = "pending"
        /\ \E a \in TaskValues : Becomes([res EXCEPT !.runs[i].fa = resolved(a)])

(* The promise of fab of an invocation resolves with a function. *)
ResolveFunction ==
    /\ op = "lazy"
    /\ \E i \in 1..Len(res.runs) :
        /\ res.runs[i].fab.st = "pending"
        /\ \E f \in NumberFunctions : Becomes([res EXCEPT !.runs[i].fab = resolved(f)])

(* .then(f) under map and liftT, .then(([f, a]) => f(a)) under ap: the     *)
(* reaction runs once the promise it is attached to has resolved.          *)
React ==
    /\ op = "lazy"
    /\ \E i \in 1..Len(res.runs) :
        /\ res.runs[i].out.st = "pending"
        /\ res.runs[i].fa.st = "resolved"
        /\ inst = "ap" => res.runs[i].fab.st = "resolved"
        /\ \E f \in {IF inst = "ap" THEN res.runs[i].fab.value ELSE args[1]} :
            Becomes([res EXCEPT
                !.runs[i].applied = Append(@, <<f, res.runs[i].fa.value>>),
                !.runs[i].out = resolved(apply(f, res.runs[i].fa.value))])

NextLazy == Build \/ Invoke \/ ResolveTask \/ ResolveFunction \/ React
SpecLazy == Init /\ [][NextLazy]_vars

(* C29: building a task with of, map, ap or liftT starts no task; after n  *)
(* invocations fa (fb) was started n times under map, liftT and ap, fab n  *)
(* times under ap, and nothing under of; in each invocation f is applied   *)
(* at most once, to the value fa resolved with, and under ap it is the     *)
(* function fab resolved with.                                             *)
C29_LazyAndOncePerInvocation ==
    op = "lazy" =>
        /\ res.invocations = 0 => res.started = [fab |-> 0, fa |-> 0]
        /\ res.invocations = Len(res.runs)
        /\ res.started.fa = (IF inst = "of" THEN 0 ELSE res.invocations)
        /\ res.started.fab = (IF inst = "ap" THEN res.invocations ELSE 0)
        /\ \A i \in 1..Len(res.runs) :
            /\ Len(res.runs[i].applied) <= 1
            /\ res.runs[i].applied # <<>> =>
                /\ inst # "of"
                /\ res.runs[i].fa.st = "resolved"
                /\ res.runs[i].applied[1][2] = res.runs[i].fa.value
                /\ inst = "ap" =>
                    /\ res.runs[i].fab.st = "resolved"
                    /\ res.runs[i].applied[1][1] = res.runs[i].fab.value
                /\ inst # "ap" => res.runs[i].applied[1][1] = args[1]
            /\ (inst # "of" /\ res.runs[i].out.st = "resolved") =>
                   res.runs[i].applied # <<>>

(* An ap task invoked twice: fab and fa started twice each, the first      *)
(* invocation done, the second with fa still pending.                      *)
C29_Witness ==
    /\ op = "lazy"
    /\ inst = "ap"
    /\ res.invocations = 2
    /\ res.started = [fab |-> 2, fa |-> 2]
    /\ res.runs[1].out.st = "resolved"
    /\ res.runs[2].fa.st = "pending"
    /\ res.runs[2].applied = <<>>

=============================================================================
